---------------------------- MODULE Spec2Model ----------------------------
(***************************************************************************)
(* The real-time voice session orchestrator of the gateway server:         *)
(* VoiceGateway (admission, audio path, failover, teardown), the two       *)
(* provider adapters GeminiService and OpenAIRealtimeService (upstream     *)
(* WebSocket, retry machine, health counters) and the RedisService calls   *)
(* the gateway makes (active-session registry, usage counter).             *)
(*                                                                         *)
(* Every handler is an async function of a single-threaded event loop: it  *)
(* runs without interruption from one await to the next.  One action of    *)
(* the model is one such segment: the effect of the awaited I/O followed   *)
(* by the code up to the next await, nested synchronous calls (event       *)
(* listeners, closeSession, the disconnect hook) included.  The segments   *)
(* are written as operators from a state record to a state record so that  *)
(* they compose in the order the code runs them.                           *)
(***************************************************************************)
EXTENDS Integers, Sequences, FiniteSets, TLC

VARIABLES
    \* VoiceGateway: the per-socket tracking maps (partial functions)
    socketUsers, socketSessions, socketProviders, socketModes, socketEmitters,
    sessionTranscripts, dbSessionIds, sessionTokenCounts, jitterBuffers,
    userTranscripts, correctionEnabled,
    \* provider adapters: session objects, the activeSessions maps, health
    sessions, activeSessions, consecutiveFailures,
    \* external collaborators: Redis active_session keys, per-minute usage
    \* counter, User.tokenBalance, the Session table
    registry, tokenUsage, tokenBalance, dbRecords,
    \* socket.io connection state of each client socket
    conn,
    \* suspended continuations: handleConnection, cleanupSession (one per
    \* trigger), attemptProviderSwitch, handleSwitchMode, trackTokenUsage
    adm, td, fo, sw, track,
    \* the correction checks triggerRealtimeGrammarCheck has started
    gc,
    \* a call of buildAdaptivePrompt: its arguments and what it returned
    pf,
    \* configuration read through ConfigService, fixed at start-up
    config,
    \* Date.now() as sampled for session ids
    clock,
    \* what each client has been sent, and bookkeeping of the run
    sent, hist, used

vars == <<socketUsers, socketSessions, socketProviders, socketModes,
          socketEmitters, sessionTranscripts, dbSessionIds,
          sessionTokenCounts, jitterBuffers, sessions, activeSessions,
          consecutiveFailures, registry, tokenUsage, tokenBalance, dbRecords,
          conn, adm, td, fo, sw, track, config, clock, sent, hist, used,
          userTranscripts, correctionEnabled, gc, pf>>

----------------------------------------------------------------------------
(* Bounds of the model.                                                    *)

\* audio_chunk messages a socket sends over the run
MaxChunks == 3
\* upstream connections that the peer closes or that fail, over the run
MaxPeerCloses == 3
\* provider messages (text, transcript, error) delivered over the run
MaxTexts == 1
\* switch_mode requests over the run
MaxModeSwitches == 1
\* audio_chunk messages of a socket where the audio path is followed
MaxStreamChunks == 7
\* provider messages delivered to the connection whose sentences are checked
MaxGrammarTexts == 2
\* provider messages delivered to the connection whose adapter fails
MaxEventTexts == 2
\* audio chunks of the connection under the watchdog
MaxWatchdogChunks == 9
\* a TOKEN_WATCHDOG_THRESHOLD that two flushes of one minute exceed
LowThreshold == 15

(* Program constants.                                                      *)
JITTER_BUFFER_SIZE == 3
MaxRetries == 2
RetryBaseMs == 1000
GeminiFailureCeiling == 3
OpenAIFailureCeiling == 5
ChunkBytes == 4096
BytesPerSecond == 32000
TokensPerSecond == 25
WatchdogThreshold == 500
\* the limits of the confidence bands, in hundredths
LowConfidence == 40
HighConfidence == 80
InitialBalance == 15

Sockets == {"c1", "c2"}
Users == {"u1"}
Providers == {"gemini", "openai"}
ValidModes == {"FREE_TALK", "ROLE_PLAY", "SHADOWING", "DEBATE", "INTERVIEW",
               "TOPIC_DISCUSSION"}
Reasons == {"client_requested", "disconnect"}

\* the user a socket's JWT names (payload.sub)
UserOf(c) == "u1"

\* "undefined" of each kind of value
NoSession == <<>>
NoUser == "no-user"
NoSocket == "no-socket"
NoProvider == "no-provider"
NoMode == "no-mode"
NoDb == "no-db"

----------------------------------------------------------------------------
(* Map<K, V>: get / set / delete / has.                                    *)

Has(m, k) == k \in DOMAIN m
Get(m, k, undef) == IF k \in DOMAIN m THEN m[k] ELSE undef
Put(m, k, v) == [x \in (DOMAIN m) \cup {k} |-> IF x = k THEN v ELSE m[x]]
Del(m, k) == [x \in (DOMAIN m) \ {k} |-> m[x]]
EmptyMap == [x \in {} |-> 0]

\* the state as one record, and its assignment to the next state
Cur ==
    [socketUsers |-> socketUsers, socketSessions |-> socketSessions,
     socketProviders |-> socketProviders, socketModes |-> socketModes,
     socketEmitters |-> socketEmitters,
     sessionTranscripts |-> sessionTranscripts, dbSessionIds |-> dbSessionIds,
     sessionTokenCounts |-> sessionTokenCounts, jitterBuffers |-> jitterBuffers,
     sessions |-> sessions, activeSessions |-> activeSessions,
     consecutiveFailures |-> consecutiveFailures, registry |-> registry,
     tokenUsage |-> tokenUsage, tokenBalance |-> tokenBalance,
     dbRecords |-> dbRecords, conn |-> conn, adm |-> adm, td |-> td, fo |-> fo,
     sw |-> sw, track |-> track, config |-> config, clock |-> clock,
     sent |-> sent, hist |-> hist, used |-> used,
     userTranscripts |-> userTranscripts,
     correctionEnabled |-> correctionEnabled, gc |-> gc, pf |-> pf]

Becomes(S) ==
    /\ socketUsers' = S.socketUsers
    /\ socketSessions' = S.socketSessions
    /\ socketProviders' = S.socketProviders
    /\ socketModes' = S.socketModes
    /\ socketEmitters' = S.socketEmitters
    /\ sessionTranscripts' = S.sessionTranscripts
    /\ dbSessionIds' = S.dbSessionIds
    /\ sessionTokenCounts' = S.sessionTokenCounts
    /\ jitterBuffers' = S.jitterBuffers
    /\ sessions' = S.sessions
    /\ activeSessions' = S.activeSessions
    /\ consecutiveFailures' = S.consecutiveFailures
    /\ registry' = S.registry
    /\ tokenUsage' = S.tokenUsage
    /\ tokenBalance' = S.tokenBalance
    /\ dbRecords' = S.dbRecords
    /\ conn' = S.conn
    /\ adm' = S.adm
    /\ td' = S.td
    /\ fo' = S.fo
    /\ sw' = S.sw
    /\ track' = S.track
    /\ config' = S.config
    /\ clock' = S.clock
    /\ sent' = S.sent
    /\ hist' = S.hist
    /\ used' = S.used
    /\ userTranscripts' = S.userTranscripts
    /\ correctionEnabled' = S.correctionEnabled
    /\ gc' = S.gc
    /\ pf' = S.pf

\* client.emit(kind, ...): the kinds of message a client has been sent
ClientEmit(S, c, kind) == [S EXCEPT !.sent[c] = @ \cup {kind}]

\* hist counts, per socket: record updates, publications, deductions,
\* completed teardowns, map clearings, fallbackToText events handled with
\* session state present, failovers started, provider_switched notifications
\* (and per provider the upstream errors since a connection last opened and
\* the names of the events its sessions have emitted)
Bump(S, field, c) == [S EXCEPT !.hist[field][c] = @ + 1]

----------------------------------------------------------------------------
(* Provider adapters: GeminiService and OpenAIRealtimeService.  The two    *)
(* classes have the same session object, maps and retry machine; `p` names *)
(* the service.  A session object outlives its removal from activeSessions *)
(* (socket handlers and timers keep a reference to it), so `sessions`      *)
(* holds every object ever created and activeSessions[p] the map's keys.   *)
(* ws is the readyState of session.ws ("null" before the first socket).    *)
(* listener is the socket the gateway's handlers on session.emitter        *)
(* deliver to.  attempts, delays, events, lateAttempts and closedIn record *)
(* what happened to the object, received and audioLog what was sent        *)
(* upstream for it.                                                        *)

NewSession(p, sid, prompt) ==
    [provider |-> p, sessionId |-> sid, ws |-> "null", retryCount |-> 0,
     isAlive |-> TRUE, timer |-> FALSE, listener |-> NoSocket,
     prompt |-> prompt, attempts |-> 0, delays |-> <<>>, events |-> <<>>,
     lateAttempts |-> 0, closedIn |-> "never", received |-> {},
     audioLog |-> <<>>]

FailureCeiling(p) ==
    IF p = "gemini" THEN GeminiFailureCeiling ELSE OpenAIFailureCeiling

isHealthy(S, p) ==
    S.config.apiKey[p] /\ S.consecutiveFailures[p] < FailureCeiling(p)

\* connectToGemini / connectToOpenAI: new WebSocket(url); session.ws = ws
connectTo(S, sid) ==
    [S EXCEPT !.sessions[sid] =
        [@ EXCEPT !.ws = "CONNECTING", !.timer = FALSE,
                  !.attempts = @ + 1,
                  !.lateAttempts =
                      IF S.sessions[sid].isAlive THEN @ ELSE @ + 1]]

createSession(S, p, sid, prompt) ==
    LET S1 == [S EXCEPT !.sessions = Put(@, sid, NewSession(p, sid, prompt)),
                        !.activeSessions[p] = @ \cup {sid}]
    IN  connectTo(S1, sid)

\* emitter.removeAllListeners() on the emitter of session object sid
removeAllListeners(S, sid) ==
    IF sid \in DOMAIN S.sessions
    THEN [S EXCEPT !.sessions[sid].listener = NoSocket]
    ELSE S

closeSession(S, p, sid) ==
    IF sid \in S.activeSessions[p]
    THEN [S EXCEPT !.sessions[sid] =
                [@ EXCEPT !.isAlive = FALSE,
                          !.ws = IF @ = "OPEN" THEN "CLOSING" ELSE @,
                          !.listener = NoSocket,
                          !.closedIn = S.sessions[sid].ws],
               !.activeSessions[p] = @ \ {sid}]
    ELSE S

\* the readyState guard shared by sendAudioChunk and sendTextPrompt
UpstreamOpen(S, p, sid) ==
    /\ sid \in S.activeSessions[p]
    /\ S.sessions[sid].ws = "OPEN"

sendAudioChunk(S, p, sid, payload) ==
    IF UpstreamOpen(S, p, sid)
    THEN [S EXCEPT !.sessions[sid].received = @ \cup {<<"audio", payload>>},
                   !.sessions[sid].audioLog = Append(@, payload)]
    ELSE S

sendTextPrompt(S, p, sid, prompt) ==
    IF UpstreamOpen(S, p, sid)
    THEN [S EXCEPT !.sessions[sid].received = @ \cup {prompt}]
    ELSE S

----------------------------------------------------------------------------
(* VoiceGateway: provider management.                                      *)

\* faulty variant: the configured primary is ignored
selectProviderGeminiFirst(S) ==
    IF isHealthy(S, "gemini") THEN "gemini"
    ELSE IF isHealthy(S, "openai") THEN "openai"
    ELSE "gemini"

selectProvider(S) ==
    IF S.config.primary = "gemini" /\ isHealthy(S, "gemini") THEN "gemini"
    ELSE IF S.config.primary = "openai" /\ isHealthy(S, "openai") THEN "openai"
    ELSE IF isHealthy(S, "gemini") THEN "gemini"
    ELSE IF isHealthy(S, "openai") THEN "openai"
    ELSE "gemini"

createAISession(S, provider, sid, prompt) ==
    IF provider = "openai"
    THEN createSession(S, "openai", sid, prompt)
    ELSE createSession(S, "gemini", sid, prompt)

\* the system prompt as far as the session machine is concerned: the mode
\* it was built for
buildAdaptivePrompt(mode) == <<"prompt", mode>>

bindEmitterEvents(S, c, sid) == [S EXCEPT !.sessions[sid].listener = c]

FoIdle ==
    [pc |-> "idle", currentProvider |-> NoProvider, sessionId |-> NoSession,
     userId |-> NoUser, newProvider |-> NoProvider]

\* faulty variant: the unhealthy branch returns without notifying the client
attemptProviderSwitchSilent(S, c) ==
    LET currentProvider == Get(S.socketProviders, c, NoProvider)
        sessionId == Get(S.socketSessions, c, NoSession)
        userId == Get(S.socketUsers, c, NoUser)
        newProvider == IF currentProvider = "gemini" THEN "openai" ELSE "gemini"
    IN  IF sessionId = NoSession \/ userId = NoUser THEN S
        ELSE IF ~isHealthy(S, newProvider)
        THEN Bump(S, "fallbacks", c)
        ELSE LET S1 == closeSession(Bump(Bump(S, "fallbacks", c), "failovers", c),
                           IF currentProvider = "gemini" THEN "gemini"
                                                         ELSE "openai",
                           sessionId)
                 S2 == removeAllListeners(S1,
                           Get(S1.socketEmitters, c, NoSession))
             IN  [S2 EXCEPT !.fo[c] =
                     [pc |-> "profile", currentProvider |-> currentProvider,
                      sessionId |-> sessionId, userId |-> userId,
                      newProvider |-> newProvider]]

\* faulty variant: the old session is left open with its listeners attached
attemptProviderSwitchKeepOld(S, c) ==
    LET currentProvider == Get(S.socketProviders, c, NoProvider)
        sessionId == Get(S.socketSessions, c, NoSession)
        userId == Get(S.socketUsers, c, NoUser)
        newProvider == IF currentProvider = "gemini" THEN "openai" ELSE "gemini"
    IN  IF sessionId = NoSession \/ userId = NoUser THEN S
        ELSE IF ~isHealthy(S, newProvider)
        THEN ClientEmit(Bump(S, "fallbacks", c), c, "error:VOICE_FALLBACK")
        ELSE [Bump(Bump(S, "fallbacks", c), "failovers", c) EXCEPT !.fo[c] =
                 [pc |-> "profile", currentProvider |-> currentProvider,
                  sessionId |-> sessionId, userId |-> userId,
                  newProvider |-> newProvider]]

\* attemptProviderSwitch up to its await (getCachedUserProfile)
attemptProviderSwitch(S, c) ==
    LET currentProvider == Get(S.socketProviders, c, NoProvider)
        sessionId == Get(S.socketSessions, c, NoSession)
        userId == Get(S.socketUsers, c, NoUser)
        newProvider == IF currentProvider = "gemini" THEN "openai" ELSE "gemini"
    IN  IF sessionId = NoSession \/ userId = NoUser THEN S
        ELSE IF ~isHealthy(S, newProvider)
        THEN ClientEmit(Bump(S, "fallbacks", c), c, "error:VOICE_FALLBACK")
        ELSE LET S1 == closeSession(Bump(Bump(S, "fallbacks", c), "failovers", c),
                           IF currentProvider = "gemini" THEN "gemini"
                                                         ELSE "openai",
                           sessionId)
                 S2 == removeAllListeners(S1,
                           Get(S1.socketEmitters, c, NoSession))
             IN  [S2 EXCEPT !.fo[c] =
                     [pc |-> "profile", currentProvider |-> currentProvider,
                      sessionId |-> sessionId, userId |-> userId,
                      newProvider |-> newProvider]]

\* faulty variant: the new session is created but the socket keeps its old
\* session id
attemptProviderSwitchResumeStaleId(S, c) ==
    LET L == S.fo[c]
        mode == Get(S.socketModes, c, "FREE_TALK")
        newSessionId == Append(L.sessionId, L.newProvider)
        S1 == createAISession(S, L.newProvider, newSessionId,
                              buildAdaptivePrompt(mode))
        S2 == [S1 EXCEPT
                  !.socketProviders = Put(@, c, L.newProvider),
                  !.socketEmitters = Put(@, c, newSessionId)]
        S3 == bindEmitterEvents(S2, c, newSessionId)
    IN  [ClientEmit(Bump(S3, "switched", c), c, "provider_switched")
            EXCEPT !.fo[c] = FoIdle]

\* faulty variant: the switch starts the transcript afresh
attemptProviderSwitchResumeNewTranscript(S, c) ==
    LET L == S.fo[c]
        mode == Get(S.socketModes, c, "FREE_TALK")
        newSessionId == Append(L.sessionId, L.newProvider)
        S1 == createAISession(S, L.newProvider, newSessionId,
                              buildAdaptivePrompt(mode))
        S2 == [S1 EXCEPT
                  !.socketProviders = Put(@, c, L.newProvider),
                  !.socketSessions = Put(@, c, newSessionId),
                  !.socketEmitters = Put(@, c, newSessionId),
                  !.sessionTranscripts = Put(@, c, <<>>)]
        S3 == bindEmitterEvents(S2, c, newSessionId)
    IN  [ClientEmit(Bump(S3, "switched", c), c, "provider_switched")
            EXCEPT !.fo[c] = FoIdle]

\* attemptProviderSwitch from the answer of getCachedUserProfile to its end
attemptProviderSwitchResume(S, c) ==
    LET L == S.fo[c]
        mode == Get(S.socketModes, c, "FREE_TALK")
        newSessionId == Append(L.sessionId, L.newProvider)
        S1 == createAISession(S, L.newProvider, newSessionId,
                              buildAdaptivePrompt(mode))
        S2 == [S1 EXCEPT
                  !.socketProviders = Put(@, c, L.newProvider),
                  !.socketSessions = Put(@, c, newSessionId),
                  !.socketEmitters = Put(@, c, newSessionId)]
        S3 == bindEmitterEvents(S2, c, newSessionId)
    IN  [ClientEmit(Bump(S3, "switched", c), c, "provider_switched")
            EXCEPT !.fo[c] = FoIdle]

\* faulty variant: an error of the adapter closes the client's connection
ListenerFatal(S, c, ev) ==
    CASE ev = "textResponse" ->
            [ClientEmit(S, c, "ai_transcript") EXCEPT
                !.sessionTranscripts =
                    Put(@, c, Append(Get(S.sessionTranscripts, c, <<>>), "AI"))]
      [] ev = "userTranscript" ->
            [S EXCEPT
                !.sessionTranscripts =
                    Put(@, c, Append(Get(S.sessionTranscripts, c, <<>>), "User"))]
      [] ev = "error" ->
            [ClientEmit(S, c, "error:AI_ERROR") EXCEPT !.conn[c] = "closed"]
      [] OTHER -> S

\* pollIntervals of pollForResult, in milliseconds
pollIntervals == <<100, 200, 400, 800, 1600>>

\* a correction check: where it is suspended, `attempt`, the delays of the
\* timers it has set and the reads of the result key it has made
NewCheck == [pc |-> "publish", attempt |-> 0, waits |-> <<>>, reads |-> 0]

\* triggerRealtimeGrammarCheck up to its await of redis.publish; every
\* sentence of the user is taken to have the 5 characters a check needs
triggerRealtimeGrammarCheck(S, c) ==
    IF ~S.config.grammar THEN S
    ELSE IF Get(S.userTranscripts, c, <<>>) = <<>> THEN S
    ELSE [S EXCEPT !.gc[c] = Append(@, NewCheck)]

\* the listeners bindEmitterEvents attaches, run for one emitted event
Listener(S, c, ev) ==
    CASE ev = "textResponse" ->
            LET S1 == [ClientEmit(S, c, "ai_transcript") EXCEPT
                          !.sessionTranscripts =
                              Put(@, c, Append(Get(S.sessionTranscripts, c,
                                                   <<>>), "AI"))]
            IN  IF Get(S1.correctionEnabled, c, FALSE)
                THEN triggerRealtimeGrammarCheck(S1, c)
                ELSE S1
      [] ev = "userTranscript" ->
            [S EXCEPT
                !.userTranscripts =
                    Put(@, c, Append(Get(S.userTranscripts, c, <<>>), "User")),
                !.sessionTranscripts =
                    Put(@, c, Append(Get(S.sessionTranscripts, c, <<>>), "User"))]
      [] ev = "audioResponse" -> ClientEmit(S, c, "ai_audio_chunk")
      [] ev = "turnComplete" -> ClientEmit(S, c, "turn_complete")
      [] ev = "fallbackToText" -> attemptProviderSwitch(S, c)
      [] ev = "error" -> ClientEmit(S, c, "error:AI_ERROR")
      [] OTHER -> S

\* session.emitter.emit(ev): the events after the retries are exhausted are
\* recorded in the object
EmitterEmit(S, sid, ev) ==
    LET keep == ev \in {"fallbackToText", "close"}
                    \/ S.sessions[sid].events # <<>>
        S0 == [S EXCEPT !.hist.emitted[S.sessions[sid].provider] = @ \cup {ev}]
        S1 == IF keep THEN [S0 EXCEPT !.sessions[sid].events = Append(@, ev)]
              ELSE S0
        c == S.sessions[sid].listener
    IN  IF c = NoSocket THEN S1 ELSE Listener(S1, c, ev)

\* faulty variant: one retry more than MaxRetries
handleDisconnectExtraRetry(S, sid) ==
    IF ~S.sessions[sid].isAlive THEN S
    ELSE LET n == S.sessions[sid].retryCount + 1
             S1 == [S EXCEPT !.sessions[sid].retryCount = n]
         IN  IF n <= MaxRetries + 1
             THEN [S1 EXCEPT !.sessions[sid].timer = TRUE,
                             !.sessions[sid].delays = Append(@, RetryBaseMs * n)]
             ELSE EmitterEmit(EmitterEmit(S1, sid, "fallbackToText"), sid, "close")

\* faulty variant: the fallback comes with the second disconnect
handleDisconnectEarlyFallback(S, sid) ==
    IF ~S.sessions[sid].isAlive THEN S
    ELSE LET n == S.sessions[sid].retryCount + 1
             S1 == [S EXCEPT !.sessions[sid].retryCount = n]
         IN  IF n < MaxRetries
             THEN [S1 EXCEPT !.sessions[sid].timer = TRUE,
                             !.sessions[sid].delays = Append(@, RetryBaseMs * n)]
             ELSE EmitterEmit(EmitterEmit(S1, sid, "fallbackToText"), sid, "close")

\* GeminiService.handleDisconnect / OpenAIRealtimeService.handleDisconnect
handleDisconnect(S, sid) ==
    IF ~S.sessions[sid].isAlive THEN S
    ELSE LET n == S.sessions[sid].retryCount + 1
             S1 == [S EXCEPT !.sessions[sid].retryCount = n]
         IN  IF n <= MaxRetries
             THEN [S1 EXCEPT !.sessions[sid].timer = TRUE,
                             !.sessions[sid].delays = Append(@, RetryBaseMs * n)]
             ELSE EmitterEmit(EmitterEmit(S1, sid, "fallbackToText"), sid, "close")

----------------------------------------------------------------------------
(* VoiceGateway.cleanupSession.  td[c][reason] is the invocation started   *)
(* by handleEndSession ("client_requested") or by handleDisconnect         *)
(* ("disconnect"): where it is suspended and the constants it read on      *)
(* entry.  `after` is the number of teardowns of the connection that had   *)
(* completed when it started and `fx` the side effects it has performed    *)
(* (a closeSession that finds no session object is not one).               *)

TdIdle ==
    [pc |-> "idle", sessionId |-> NoSession, userId |-> NoUser,
     dbSessionId |-> NoDb, transcript |-> <<>>, tokensUsed |-> 0,
     provider |-> NoProvider, after |-> 0, fx |-> {}]

TdEffect(S, c, r, what) == [S EXCEPT !.td[c][r].fx = @ \cup {what}]

\* faulty variant: the chunks still buffered are forwarded before the maps
\* are cleared
clearMapsFlushing(S, c) ==
    LET buffer == Get(S.jitterBuffers, c, <<>>)
        S1 == IF buffer = <<>> THEN S
              ELSE [S EXCEPT !.hist.forwarded[c] =
                       Append(@, [provider |-> "gemini",
                                  sessionId |-> Get(S.socketSessions, c,
                                                    NoSession),
                                  payload |-> buffer,
                                  bytes |-> Len(buffer) * ChunkBytes,
                                  delivered |-> FALSE,
                                  noticed |-> S.hist.rateLimited[c]])]
    IN  [S1 EXCEPT
              !.socketSessions = Del(@, c), !.socketUsers = Del(@, c),
              !.jitterBuffers = Del(@, c), !.sessionTranscripts = Del(@, c),
              !.dbSessionIds = Del(@, c), !.sessionTokenCounts = Del(@, c),
              !.socketProviders = Del(@, c), !.socketModes = Del(@, c),
              !.socketEmitters = Del(@, c),
              !.userTranscripts = Del(@, c),
              !.correctionEnabled = Del(@, c),
              !.hist.cleared[c] = @ + 1]

\* step 5: clean up all tracking maps
clearMaps(S, c) ==
    [S EXCEPT !.socketSessions = Del(@, c), !.socketUsers = Del(@, c),
              !.jitterBuffers = Del(@, c), !.sessionTranscripts = Del(@, c),
              !.dbSessionIds = Del(@, c), !.sessionTokenCounts = Del(@, c),
              !.socketProviders = Del(@, c), !.socketModes = Del(@, c),
              !.socketEmitters = Del(@, c),
              !.userTranscripts = Del(@, c),
              !.correctionEnabled = Del(@, c),
              !.hist.cleared[c] = @ + 1]

\* cleanupSession returns to its caller; handleEndSession then emits
\* session_ended
cleanupReturn(S, c, r) ==
    LET S1 == [S EXCEPT !.td[c][r] =
                   [TdIdle EXCEPT !.pc = "done", !.userId = S.td[c][r].userId,
                                  !.after = S.td[c][r].after,
                                  !.fx = S.td[c][r].fx],
                        !.hist.completed[c] = @ + 1]
    IN  IF r = "client_requested" THEN ClientEmit(S1, c, "session_ended")
        ELSE S1

StepRank(step) ==
    CASE step = "start" -> 0 [] step = "update" -> 1
      [] step = "publish" -> 2 [] step = "deduct" -> 3

\* after step `from`: run on to the next step that awaits
cleanupContinue(S, c, r, from) ==
    LET L == S.td[c][r] IN
    IF StepRank(from) < 1 /\ L.dbSessionId # NoDb
    THEN [S EXCEPT !.td[c][r].pc = "update"]
    ELSE IF StepRank(from) < 2 /\ L.userId # NoUser /\ Len(L.transcript) > 0
    THEN [S EXCEPT !.td[c][r].pc = "publish"]
    ELSE IF StepRank(from) < 3 /\ L.userId # NoUser /\ L.tokensUsed > 0
    THEN [S EXCEPT !.td[c][r].pc = "deduct"]
    ELSE IF L.userId # NoUser
    THEN [clearMaps(S, c) EXCEPT !.td[c][r].pc = "remove"]
    ELSE cleanupReturn(clearMaps(S, c), c, r)

\* faulty variant: the error of a step is not caught; cleanupSession rejects
\* and the catch of its caller logs it
cleanupCatchRethrow(S, c, r, step) ==
    [S EXCEPT !.hist.failed[c] = @ \cup {step},
              !.td[c][r] = [TdIdle EXCEPT !.pc = "done",
                                          !.userId = S.td[c][r].userId,
                                          !.after = S.td[c][r].after,
                                          !.fx = S.td[c][r].fx]]

\* the catch block of step 2, 3 or 4: the error is logged and the teardown
\* goes on with the next step
cleanupCatch(S, c, r, step) ==
    cleanupContinue([S EXCEPT !.hist.failed[c] = @ \cup {step}], c, r, step)

\* entry of cleanupSession up to its first await
cleanupSession(S, c, r) ==
    LET sessionId == Get(S.socketSessions, c, NoSession)
        provider == Get(S.socketProviders, c, NoProvider)
        S1 == [S EXCEPT !.td[c][r] =
                  [pc |-> "start", sessionId |-> sessionId,
                   userId |-> Get(S.socketUsers, c, NoUser),
                   dbSessionId |-> Get(S.dbSessionIds, c, NoDb),
                   transcript |-> Get(S.sessionTranscripts, c, <<>>),
                   tokensUsed |-> Get(S.sessionTokenCounts, c, 0),
                   provider |-> provider,
                   after |-> S.hist.completed[c], fx |-> {}]]
        p == IF provider = "openai" THEN "openai" ELSE "gemini"
        S2 == IF sessionId # NoSession
              THEN IF sessionId \in S.activeSessions[p]
                   THEN TdEffect(closeSession(S1, p, sessionId), c, r, "close")
                   ELSE closeSession(S1, p, sessionId)
              ELSE S1
        S3 == removeAllListeners(S2, Get(S2.socketEmitters, c, NoSession))
    IN  cleanupContinue(S3, c, r, "start")

\* VoiceGateway.handleDisconnect, run by socket.io when the socket closes
gatewayHandleDisconnect(S, c) == cleanupSession(S, c, "disconnect")

\* socket.disconnect() called by the server on a connected socket
serverDisconnect(S, c) ==
    IF S.conn[c] = "open"
    THEN gatewayHandleDisconnect([S EXCEPT !.conn[c] = "closed"], c)
    ELSE S


----------------------------------------------------------------------------
(* Initial state: the server has started, no socket has connected.         *)

NoFlush == [provider |-> NoProvider, sessionId |-> NoSession, gen |-> 0]
AdmIdle ==
    [pc |-> "idle", existing |-> NoSocket, provider |-> NoProvider,
     sessionId |-> NoSession]

InitState(cfgs) ==
    /\ socketUsers = EmptyMap /\ socketSessions = EmptyMap
    /\ socketProviders = EmptyMap /\ socketModes = EmptyMap
    /\ socketEmitters = EmptyMap /\ sessionTranscripts = EmptyMap
    /\ dbSessionIds = EmptyMap /\ sessionTokenCounts = EmptyMap
    /\ jitterBuffers = EmptyMap
    /\ sessions = EmptyMap
    /\ activeSessions = [p \in Providers |-> {}]
    /\ consecutiveFailures = [p \in Providers |-> 0]
    /\ registry = EmptyMap
    /\ tokenUsage = [u \in Users |-> 0]
    /\ tokenBalance = [u \in Users |-> InitialBalance]
    /\ dbRecords = EmptyMap
    /\ conn = [c \in Sockets |-> "new"]
    /\ adm = [c \in Sockets |-> AdmIdle]
    /\ td = [c \in Sockets |-> [r \in Reasons |-> TdIdle]]
    /\ fo = [c \in Sockets |-> FoIdle]
    /\ sw = [c \in Sockets |-> <<>>]
    /\ track = [c \in Sockets |-> <<>>]
    /\ userTranscripts = EmptyMap /\ correctionEnabled = EmptyMap
    /\ gc = [c \in Sockets |-> <<>>]
    /\ config \in cfgs
    /\ clock = 1
    /\ sent = [c \in Sockets |-> {}]
    /\ hist = [updates |-> [c \in Sockets |-> 0],
               publishes |-> [c \in Sockets |-> 0],
               deducts |-> [c \in Sockets |-> 0],
               completed |-> [c \in Sockets |-> 0],
               cleared |-> [c \in Sockets |-> 0],
               failed |-> [c \in Sockets |-> {}],
               fallbacks |-> [c \in Sockets |-> 0],
               failovers |-> [c \in Sockets |-> 0],
               switched |-> [c \in Sockets |-> 0],
               flushes |-> [c \in Sockets |-> 0],
               accepted |-> [c \in Sockets |-> <<>>],
               forwarded |-> [c \in Sockets |-> <<>>],
               switchLog |-> [c \in Sockets |-> <<>>],
               errorsSinceOpen |-> [p \in Providers |-> 0],
               modeRequests |-> [c \in Sockets |-> <<>>],
               emitted |-> [p \in Providers |-> {}],
               gcReads |-> [c \in Sockets |-> 0],
               rateLimited |-> [c \in Sockets |-> 0],
               lastFlush |-> [c \in Sockets |-> NoFlush]]
    /\ used = [chunks |-> [c \in Sockets |-> 0], closes |-> 0, texts |-> 0,
               modes |-> 0]

\* watchdog is TOKEN_WATCHDOG_THRESHOLD, by default WatchdogThreshold;
\* grammar is REALTIME_GRAMMAR_ENABLED = 'true', the default
Configs ==
    [primary : Providers, apiKey : [Providers -> BOOLEAN], greeting : BOOLEAN,
     watchdog : {WatchdogThreshold}, grammar : {TRUE}]

\* the fallback profile of handleConnection, and no call made
NoPrompt == <<>>
DefaultProfile == [confidenceScore |-> "0.5", vnSupportEnabled |-> "true"]
IdlePrompt == [profile |-> DefaultProfile, mode |-> "FREE_TALK", out |-> NoPrompt]

InitWith(cfgs) ==
    /\ pf = IdlePrompt
    /\ InitState(cfgs)

----------------------------------------------------------------------------
(* VoiceGateway.buildAdaptivePrompt as a function of the profile.  The      *)
(* profile is the hash the cache returns, its values strings; numbers are   *)
(* in hundredths, so 0.4 is LowConfidence and 0.8 is HighConfidence.        *)

ScoreStrings ==
    {"", "abc", "0", "0.39", "0.4", "0.41", "0.5", "0.79", "0.8", "0.81", "1"}
Profiles ==
    [confidenceScore : ScoreStrings, vnSupportEnabled : {"true", "false", ""}]

\* parseFloat on the strings above: a number, or NaN
parseFloat(str) ==
    CASE str = "0" -> [nan |-> FALSE, value |-> 0]
      [] str = "0.39" -> [nan |-> FALSE, value |-> 39]
      [] str = "0.4" -> [nan |-> FALSE, value |-> 40]
      [] str = "0.41" -> [nan |-> FALSE, value |-> 41]
      [] str = "0.5" -> [nan |-> FALSE, value |-> 50]
      [] str = "0.79" -> [nan |-> FALSE, value |-> 79]
      [] str = "0.8" -> [nan |-> FALSE, value |-> 80]
      [] str = "0.81" -> [nan |-> FALSE, value |-> 81]
      [] str = "1" -> [nan |-> FALSE, value |-> 100]
      [] OTHER -> [nan |-> TRUE, value |-> 0]

\* a comparison with NaN is false
Lt(x, n) == ~x.nan /\ x.value < n
Gt(x, n) == ~x.nan /\ x.value > n

\* parseFloat(profile['confidenceScore'] || '0.5')
confidenceOf(profile) ==
    parseFloat(IF profile.confidenceScore = "" THEN "0.5"
               ELSE profile.confidenceScore)

\* faulty variant: the bands include their limits
languageInstructionsInclusive(profile) ==
    LET confidence == confidenceOf(profile)
        vnSupport == profile.vnSupportEnabled = "true"
    IN  IF ~Gt(confidence, LowConfidence) /\ ~confidence.nan /\ vnSupport
        THEN "vietnamese"
        ELSE IF ~Lt(confidence, HighConfidence) /\ ~confidence.nan
        THEN "english"
        ELSE "balanced"

\* the language instructions buildAdaptivePrompt chooses
languageInstructions(profile) ==
    LET confidence == confidenceOf(profile)
        vnSupport == profile.vnSupportEnabled = "true"
    IN  IF Lt(confidence, LowConfidence) /\ vnSupport THEN "vietnamese"
        ELSE IF Gt(confidence, HighConfidence) THEN "english"
        ELSE "balanced"

\* the prompt: the language instructions and the instructions of the mode
adaptivePrompt(profile, mode) == <<languageInstructions(profile), mode>>

\* buildAdaptivePrompt is called and returns
BuildPrompt ==
    /\ pf.out = NoPrompt
    /\ Becomes([Cur EXCEPT !.pf.out = adaptivePrompt(pf.profile, pf.mode)])

----------------------------------------------------------------------------
(* VoiceGateway.handleConnection, one action per await.                    *)

\* faulty variant: the user is recorded before the token is verified
ConnectUnverified(c, token) ==
    /\ conn[c] = "new"
    /\ LET S0 == [Cur EXCEPT !.conn[c] = "open",
                             !.socketUsers = Put(@, c, UserOf(c))] IN
       IF token = "valid"
       THEN Becomes([S0 EXCEPT !.adm[c].pc = "getActive"])
       ELSE Becomes(serverDisconnect(ClientEmit(S0, c, "error"), c))

\* steps 1: authentication, up to the await of getActiveSession
Connect(c, token) ==
    /\ conn[c] = "new"
    /\ LET S0 == [Cur EXCEPT !.conn[c] = "open"] IN
       IF token = "valid"
       THEN Becomes([S0 EXCEPT !.socketUsers = Put(@, c, UserOf(c)),
                               !.adm[c].pc = "getActive"])
       ELSE Becomes(serverDisconnect(ClientEmit(S0, c, "error"), c))

\* faulty variant: the registered socket is left connected
AdmGetActiveNoKick(c) ==
    /\ adm[c].pc = "getActive"
    /\ Becomes([Cur EXCEPT !.adm[c].pc = "setActive",
                           !.adm[c].existing =
                               Get(registry, UserOf(c), NoSocket)])

\* step 2: getActiveSession has answered; kick the registered socket
AdmGetActive(c) ==
    /\ adm[c].pc = "getActive"
    /\ LET existing == Get(registry, UserOf(c), NoSocket)
           S1 == IF existing # NoSocket /\ existing # c
                 THEN serverDisconnect(
                          IF conn[existing] = "open"
                          THEN ClientEmit(Cur, existing, "force_disconnect")
                          ELSE Cur,
                          existing)
                 ELSE Cur
       IN  Becomes([S1 EXCEPT !.adm[c].pc = "setActive",
                              !.adm[c].existing = existing])

\* setActiveSession has written the registry; step 3 starts
AdmSetActive(c) ==
    /\ adm[c].pc = "setActive"
    /\ Becomes([Cur EXCEPT !.registry = Put(@, UserOf(c), c),
                           !.adm[c].pc = "profile"])

\* the catch block of handleConnection: the client is told and disconnected
admissionFailed(S, c, pc) ==
    serverDisconnect(ClientEmit([S EXCEPT !.adm[c].pc = pc], c, "error"), c)

\* setActiveSession has thrown: the registry has not been written
AdmSetActiveFails(c) ==
    /\ adm[c].pc = "setActive"
    /\ Becomes(admissionFailed(Cur, c, "refused"))

\* the profile could not be loaded from the store
AdmProfileFails(c) ==
    /\ adm[c].pc = "profile"
    /\ Becomes(admissionFailed(Cur, c, "failed"))

\* sessionRepo.save has thrown
AdmSaveFails(c) ==
    /\ adm[c].pc = "save"
    /\ Becomes(admissionFailed(Cur, c, "failed"))

\* the profile is loaded; steps 4 and 5 up to the await of sessionRepo.save
AdmProfile(c) ==
    /\ adm[c].pc = "profile"
    /\ LET provider == selectProvider(Cur)
           sessionId == <<UserOf(c), clock>>
       IN  Becomes([Cur EXCEPT
               !.socketProviders = Put(@, c, provider),
               !.socketSessions = Put(@, c, sessionId),
               !.sessionTranscripts = Put(@, c, <<>>),
               !.sessionTokenCounts = Put(@, c, 0),
               !.socketModes = Put(@, c, "FREE_TALK"),
               !.userTranscripts = Put(@, c, <<>>),
               !.correctionEnabled = Put(@, c, TRUE),
               !.clock = @ + 1,
               !.adm[c] = [@ EXCEPT !.pc = "save", !.provider = provider,
                                    !.sessionId = sessionId]])

\* the session record is saved; the AI session is created and announced
AdmSave(c) ==
    /\ adm[c].pc = "save"
    /\ LET L == adm[c]
           S1 == [Cur EXCEPT
                     !.dbRecords = Put(@, c, [endTime |-> FALSE,
                                              totalTokensConsumed |-> 0,
                                              transcript |-> <<>>]),
                     !.dbSessionIds = Put(@, c, c),
                     !.jitterBuffers = Put(@, c, <<>>)]
           S2 == createAISession(S1, L.provider, L.sessionId,
                                 buildAdaptivePrompt("FREE_TALK"))
           S3 == bindEmitterEvents(
                     [S2 EXCEPT !.socketEmitters = Put(@, c, L.sessionId)],
                     c, L.sessionId)
           S4 == ClientEmit(S3, c, "session_started")
       IN  Becomes([S4 EXCEPT !.adm[c].pc =
                       IF config.greeting THEN "greeting" ELSE "done"])

\* step 6: getDailyReview has answered; the greeting prompt is sent
AdmGreeting(c) ==
    /\ adm[c].pc = "greeting"
    /\ LET L == adm[c]
           S1 == sendTextPrompt(Cur,
                     IF L.provider = "openai" THEN "openai" ELSE "gemini",
                     L.sessionId, <<"greeting", "FREE_TALK">>)
       IN  Becomes([S1 EXCEPT !.adm[c].pc = "done"])

\* the client's transport closes
Disconnect(c) ==
    /\ conn[c] = "open"
    /\ Becomes(serverDisconnect(Cur, c))

----------------------------------------------------------------------------
(* Upstream WebSocket events and the retry timer of an adapter session.    *)

\* faulty variant: a connection that opens starts the retries afresh
WsOpenResetsRetries(sid) ==
    /\ sessions[sid].ws = "CONNECTING"
    /\ Becomes([Cur EXCEPT !.sessions[sid].ws = "OPEN",
                           !.sessions[sid].retryCount = 0,
                           !.sessions[sid].received =
                               @ \cup {<<"setup", sessions[sid].prompt[2]>>},
                           !.consecutiveFailures[sessions[sid].provider] = 0,
                           !.hist.errorsSinceOpen[sessions[sid].provider] = 0])

WsOpen(sid) ==
    /\ sessions[sid].ws = "CONNECTING"
    /\ Becomes([Cur EXCEPT !.sessions[sid].ws = "OPEN",
                           !.sessions[sid].received =
                               @ \cup {<<"setup", sessions[sid].prompt[2]>>},
                           !.consecutiveFailures[sessions[sid].provider] = 0,
                           !.hist.errorsSinceOpen[sessions[sid].provider] = 0])

\* 'error' followed by 'close': a failed handshake or a transport error
WsError(sid) ==
    /\ sessions[sid].ws \in {"CONNECTING", "OPEN"}
    /\ used.closes < MaxPeerCloses
    /\ LET S1 == [Cur EXCEPT
                     !.consecutiveFailures[sessions[sid].provider] = @ + 1,
                     !.hist.errorsSinceOpen[sessions[sid].provider] = @ + 1,
                     !.sessions[sid].ws = "CLOSED",
                     !.used.closes = @ + 1]
       IN  Becomes(handleDisconnect(EmitterEmit(S1, sid, "error"), sid))

\* the peer closes an open connection
WsPeerClose(sid) ==
    /\ sessions[sid].ws = "OPEN"
    /\ used.closes < MaxPeerCloses
    /\ Becomes(handleDisconnect(
           [Cur EXCEPT !.sessions[sid].ws = "CLOSED", !.used.closes = @ + 1],
           sid))

\* 'close' of a connection the adapter closed itself
WsClosed(sid) ==
    /\ sessions[sid].ws = "CLOSING"
    /\ Becomes(handleDisconnect([Cur EXCEPT !.sessions[sid].ws = "CLOSED"], sid))

\* the setTimeout of handleDisconnect elapses
RetryTimer(sid) ==
    /\ sessions[sid].timer
    /\ Becomes(connectTo(Cur, sid))

\* the catch block of connectToGemini / connectToOpenAI: new WebSocket has
\* thrown, session.ws keeps the socket of the attempt before
connectThrows(S, sid) ==
    LET p == S.sessions[sid].provider
        S1 == [S EXCEPT !.sessions[sid] =
                  [@ EXCEPT !.timer = FALSE, !.attempts = @ + 1,
                            !.lateAttempts =
                                IF S.sessions[sid].isAlive THEN @ ELSE @ + 1],
                        !.consecutiveFailures[p] = @ + 1,
                        !.hist.errorsSinceOpen[p] = @ + 1]
    IN  EmitterEmit(S1, sid, "error")

\* the setTimeout of handleDisconnect elapses and new WebSocket throws; the
\* session has a listener for the error event
RetryTimerThrows(sid) ==
    /\ sessions[sid].timer
    /\ sessions[sid].listener # NoSocket
    /\ Becomes(connectThrows(Cur, sid))

\* the messages of each provider, by what its handler does with them
GeminiMessages == {"setupComplete", "audio", "text", "turnComplete", "other"}
OpenAIMessages ==
    {"session.created", "response.audio.delta",
     "response.audio_transcript.delta", "response.audio_transcript.done",
     "conversation.item.input_audio_transcription.completed",
     "response.done", "input_audio_buffer.speech_started",
     "input_audio_buffer.speech_stopped", "error", "other"}

\* the event handleGeminiMessage emits for a message ("" for none)
GeminiEvent(msg) ==
    CASE msg = "audio" -> "audioResponse"
      [] msg = "text" -> "textResponse"
      [] msg = "turnComplete" -> "turnComplete"
      [] OTHER -> ""

\* the event handleOpenAIMessage emits for a message ("" for none)
OpenAIEvent(msg) ==
    CASE msg = "response.audio.delta" -> "audioResponse"
      [] msg = "response.audio_transcript.delta" -> "textResponse"
      [] msg = "response.audio_transcript.done" -> "fullTranscript"
      [] msg = "conversation.item.input_audio_transcription.completed" ->
             "userTranscript"
      [] msg = "response.done" -> "turnComplete"
      [] msg = "input_audio_buffer.speech_started" -> "speechStarted"
      [] msg = "input_audio_buffer.speech_stopped" -> "speechStopped"
      [] msg = "error" -> "error"
      [] OTHER -> ""

MessagesOf(p) == IF p = "openai" THEN OpenAIMessages ELSE GeminiMessages
EventOf(p, msg) == IF p = "openai" THEN OpenAIEvent(msg) ELSE GeminiEvent(msg)

\* a message arrives over the open connection of a session
ProviderMessage(sid, msg, max) ==
    /\ sessions[sid].ws = "OPEN"
    /\ used.texts < max
    /\ msg \in MessagesOf(sessions[sid].provider)
    /\ LET S1 == [Cur EXCEPT !.used.texts = @ + 1]
           ev == EventOf(sessions[sid].provider, msg)
       IN  IF ev = "" THEN Becomes(S1) ELSE Becomes(EmitterEmit(S1, sid, ev))

\* a provider message that the adapter translates to textResponse or
\* userTranscript
ProviderTextUpTo(sid, ev, max) ==
    /\ sessions[sid].ws = "OPEN"
    /\ used.texts < max
    /\ \E msg \in MessagesOf(sessions[sid].provider) :
           EventOf(sessions[sid].provider, msg) = ev
    /\ Becomes(EmitterEmit([Cur EXCEPT !.used.texts = @ + 1], sid, ev))

ProviderText(sid, ev) == ProviderTextUpTo(sid, ev, MaxTexts)

\* handleCorrectionToggle
CorrectionToggle(c, enabled) ==
    /\ conn[c] = "open"
    /\ Get(correctionEnabled, c, ~enabled) # enabled
    /\ Becomes(ClientEmit([Cur EXCEPT !.correctionEnabled = Put(@, c, enabled)],
                          c, "correction_toggled"))

\* redis.publish of the check has resolved: the first timer is set
GcPublished(c, i) ==
    /\ gc[c][i].pc = "publish"
    /\ Becomes([Cur EXCEPT !.gc[c][i] =
                   [@ EXCEPT !.pc = "timer", !.attempt = 1,
                             !.waits = <<pollIntervals[1]>>]])

\* redis.publish has thrown: the check is logged and dropped
GcPublishFails(c, i) ==
    /\ gc[c][i].pc = "publish"
    /\ Becomes([Cur EXCEPT !.gc[c][i].pc = "done"])

\* a timer of the check fires: pollForResult up to its await of redis.get
GcTimer(c, i) ==
    /\ gc[c][i].pc = "timer"
    /\ IF gc[c][i].attempt >= Len(pollIntervals)
       THEN Becomes([Cur EXCEPT !.gc[c][i].pc = "gaveUp"])
       ELSE Becomes([Cur EXCEPT !.gc[c][i].pc = "read"])

\* the result of a read, and pollForResult after it
pollForResult(S, c, i, result) ==
    LET S1 == [S EXCEPT !.gc[c][i].reads = @ + 1,
                        !.hist.gcReads[c] = @ + 1]
        k == S.gc[c][i]
    IN  CASE result = "mistake" ->
                 ClientEmit([S1 EXCEPT !.gc[c][i].pc = "done"], c,
                            "grammar_correction")
          [] result \in {"clean", "malformed"} ->
                 [S1 EXCEPT !.gc[c][i].pc = "done"]
          [] OTHER ->
                 [S1 EXCEPT !.gc[c][i] =
                     [@ EXCEPT !.pc = "timer", !.attempt = k.attempt + 1,
                               !.waits = Append(@, pollIntervals[k.attempt + 1])]]

\* redis.get has answered: no key yet, a correction, a result without a
\* mistake, or a value that is not JSON
GcRead(c, i, result) ==
    /\ gc[c][i].pc = "read"
    /\ Becomes(pollForResult(Cur, c, i, result))

\* the provider reports an error in a message over the open connection:
\* handleOpenAIMessage emits 'error'; handleGeminiMessage has no case for it
ProviderErrorUpTo(sid, max) ==
    /\ sessions[sid].ws = "OPEN"
    /\ used.texts < max
    /\ LET S1 == [Cur EXCEPT
                     !.used.texts = @ + 1,
                     !.hist.errorsSinceOpen[sessions[sid].provider] = @ + 1]
       IN  IF sessions[sid].provider = "openai"
           THEN Becomes(EmitterEmit(S1, sid, "error"))
           ELSE Becomes(S1)

ProviderError(sid) == ProviderErrorUpTo(sid, MaxTexts)

\* attemptProviderSwitch after its await
FailoverResume(c) ==
    /\ fo[c].pc = "profile"
    /\ LET L == fo[c]
           S1 == attemptProviderSwitchResume(Cur, c)
       IN  Becomes([S1 EXCEPT
               !.hist.switchLog[c] =
                   Append(@, [from |-> L.currentProvider,
                              to |-> L.newProvider,
                              oldSessionId |-> L.sessionId,
                              sessionId |-> Get(S1.socketSessions, c, NoSession),
                              mode |-> Get(socketModes, c, NoMode)])])

----------------------------------------------------------------------------
(* Client messages.                                                        *)

\* Math.ceil(concatenated.length / 32000 * 25)
EstimatedTokens(bytes) ==
    (bytes * TokensPerSecond + BytesPerSecond - 1) \div BytesPerSecond

\* faulty variant: only a payload that the adapter sent upstream is counted
trackTokenUsageDelivered(S, c, tokens) ==
    LET provider == Get(S.socketProviders, c, NoProvider)
        p == IF provider = "openai" THEN "openai" ELSE "gemini"
    IN  IF Get(S.socketUsers, c, NoUser) = NoUser THEN S
        ELSE IF ~UpstreamOpen(S, p, Get(S.socketSessions, c, NoSession)) THEN S
        ELSE [S EXCEPT !.track[c] = Append(@, tokens)]

\* trackTokenUsage up to its await of incrementTokenUsage
trackTokenUsage(S, c, tokens) ==
    IF Get(S.socketUsers, c, NoUser) = NoUser THEN S
    ELSE [S EXCEPT !.track[c] = Append(@, tokens)]

\* faulty variant: the chunk is put in front of the buffered ones
pushChunkFront(buffer, chunk) == <<chunk>> \o buffer

\* buffer.push(Buffer.from(data))
pushChunk(buffer, chunk) == Append(buffer, chunk)

\* faulty variant: the buffer is flushed one chunk late
bufferFullLate(buffer) == Len(buffer) > JITTER_BUFFER_SIZE

\* buffer.length >= this.JITTER_BUFFER_SIZE
bufferFull(buffer) == Len(buffer) >= JITTER_BUFFER_SIZE

\* Buffer.concat(buffer).length: every chunk of the model has ChunkBytes
\* bytes, and the payload is the chunks in the order of the buffer
concatLength(buffer) == Len(buffer) * ChunkBytes

\* handleAudioChunk: chunk n of the socket arrives
handleAudioChunk(S, c, chunk) ==
    LET sessionId == Get(S.socketSessions, c, NoSession) IN
    IF sessionId = NoSession THEN ClientEmit(S, c, "error")
    ELSE IF ~Has(S.jitterBuffers, c) THEN S
    ELSE LET buffer == pushChunk(S.jitterBuffers[c], chunk) IN
         IF bufferFull(buffer)
         THEN LET provider == Get(S.socketProviders, c, NoProvider)
                  p == IF provider = "openai" THEN "openai" ELSE "gemini"
                  S1 == [S EXCEPT !.jitterBuffers = Put(@, c, <<>>)]
                  S2 == sendAudioChunk(S1, p, sessionId, buffer)
                  S3 == [S2 EXCEPT
                            !.hist.flushes[c] = @ + 1,
                            !.hist.forwarded[c] =
                                Append(@, [provider |-> p,
                                           sessionId |-> sessionId,
                                           payload |-> buffer,
                                           bytes |-> concatLength(buffer),
                                           delivered |->
                                               UpstreamOpen(S1, p, sessionId),
                                           noticed |->
                                               S.hist.rateLimited[c]]),
                            !.hist.lastFlush[c] =
                                [provider |-> p, sessionId |-> sessionId,
                                 gen |-> Len(S.hist.switchLog[c])]]
              IN  trackTokenUsage(S3, c,
                      EstimatedTokens(concatLength(buffer)))
         ELSE [S EXCEPT !.jitterBuffers = Put(@, c, buffer)]

\* an audio_chunk message arrives, the n-th of the socket; hist.accepted
\* lists the chunks that found a session id and a jitter buffer
AudioChunkUpTo(c, max) ==
    /\ conn[c] = "open"
    /\ used.chunks[c] < max
    /\ LET n == used.chunks[c] + 1
           S0 == [Cur EXCEPT !.used.chunks[c] = n]
           S1 == IF Has(socketSessions, c) /\ Has(jitterBuffers, c)
                 THEN [S0 EXCEPT !.hist.accepted[c] = Append(@, n)]
                 ELSE S0
       IN  Becomes(handleAudioChunk(S1, c, n))

AudioChunk(c) == AudioChunkUpTo(c, MaxChunks)

\* faulty variant: a user over the threshold has the audio path closed
watchdogPause(S, c, currentUsage) ==
    IF currentUsage > S.config.watchdog
    THEN [Bump(ClientEmit(S, c, "error:RATE_LIMITED"), "rateLimited", c)
             EXCEPT !.jitterBuffers = Del(@, c)]
    ELSE S

\* the comparison of the usage with the threshold and the notice
watchdog(S, c, currentUsage) ==
    IF currentUsage > S.config.watchdog
    THEN Bump(ClientEmit(S, c, "error:RATE_LIMITED"), "rateLimited", c)
    ELSE S

\* the rest of trackTokenUsage once incrementTokenUsage has returned
trackTokenUsageReturn(S, c, tokens, currentUsage) ==
    LET S2 == watchdog(S, c, currentUsage)
        S3 == [S2 EXCEPT !.sessionTokenCounts =
                   Put(@, c, Get(S2.sessionTokenCounts, c, 0) + tokens)]
    IN  ClientEmit(S3, c, "token_update")

\* incrementTokenUsage has answered with the incremented counter
TrackResume(c) ==
    /\ track[c] # <<>>
    /\ LET tokens == Head(track[c])
           u == UserOf(c)
           currentUsage == tokenUsage[u] + tokens
           S1 == [Cur EXCEPT !.tokenUsage[u] = currentUsage,
                             !.track[c] = Tail(@)]
       IN  Becomes(trackTokenUsageReturn(S1, c, tokens, currentUsage))

\* incrementTokenUsage could not reach the store and has answered 0
TrackFails(c) ==
    /\ track[c] # <<>>
    /\ LET tokens == Head(track[c])
           S1 == [Cur EXCEPT !.track[c] = Tail(@)]
       IN  Becomes(trackTokenUsageReturn(S1, c, tokens, 0))

\* a minute has passed: increments go to the key of the next minute bucket
MinuteBucketRolls(u) ==
    /\ tokenUsage[u] > 0
    /\ Becomes([Cur EXCEPT !.tokenUsage[u] = 0])

\* faulty variant: the requested mode is stored before it is validated
SwitchModeUnchecked(c, mode) ==
    /\ conn[c] = "open"
    /\ used.modes < MaxModeSwitches
    /\ LET S0 == [Cur EXCEPT !.used.modes = @ + 1,
                             !.hist.modeRequests[c] = Append(@, mode),
                             !.socketModes = Put(@, c, mode)]
       IN  IF mode \notin ValidModes THEN Becomes(ClientEmit(S0, c, "error"))
           ELSE Becomes(S0)

\* handleSwitchMode up to its await of getCachedUserProfile
SwitchMode(c, mode) ==
    /\ conn[c] = "open"
    /\ used.modes < MaxModeSwitches
    /\ LET S0 == [Cur EXCEPT !.used.modes = @ + 1,
                             !.hist.modeRequests[c] = Append(@, mode)]
           sessionId == Get(socketSessions, c, NoSession)
           userId == Get(socketUsers, c, NoUser)
       IN  IF mode \notin ValidModes THEN Becomes(ClientEmit(S0, c, "error"))
           ELSE IF sessionId = NoSession \/ userId = NoUser THEN Becomes(S0)
           ELSE Becomes([S0 EXCEPT
                    !.socketModes = Put(@, c, mode),
                    !.sw[c] = Append(@, [mode |-> mode,
                                         sessionId |-> sessionId])])

\* the profile has been read: the prompt is sent and the switch acknowledged
SwitchResume(c) ==
    /\ sw[c] # <<>>
    /\ LET L == Head(sw[c])
           provider == Get(socketProviders, c, NoProvider)
           S1 == sendTextPrompt([Cur EXCEPT !.sw[c] = Tail(@)],
                     IF provider = "openai" THEN "openai" ELSE "gemini",
                     L.sessionId, buildAdaptivePrompt(L.mode))
       IN  Becomes(ClientEmit(S1, c, "mode_switched"))

\* handleEndSession: requestConversationScore awaits its publication when
\* there is a transcript to score
EndSession(c) ==
    /\ conn[c] = "open"
    /\ td[c]["client_requested"].pc = "idle"
    /\ IF Has(socketUsers, c) /\ Get(sessionTranscripts, c, <<>>) # <<>>
       THEN Becomes([Cur EXCEPT !.td[c]["client_requested"].pc = "score"])
       ELSE Becomes(cleanupSession(Cur, c, "client_requested"))

TdScore(c) ==
    /\ td[c]["client_requested"].pc = "score"
    /\ Becomes(cleanupSession(Cur, c, "client_requested"))

----------------------------------------------------------------------------
(* cleanupSession after each of its awaits.                                *)

\* step 2: sessionRepo.update has been executed
TdUpdate(c, r) ==
    /\ td[c][r].pc = "update"
    /\ LET L == td[c][r]
           S1 == [Cur EXCEPT
                     !.dbRecords[L.dbSessionId] =
                         [endTime |-> TRUE,
                          totalTokensConsumed |-> L.tokensUsed,
                          transcript |-> L.transcript],
                     !.hist.updates[c] = @ + 1]
       IN  Becomes(cleanupContinue(TdEffect(S1, c, r, "update"), c, r, "update"))

\* step 3: session_ended has been published
TdPublish(c, r) ==
    /\ td[c][r].pc = "publish"
    /\ LET S1 == [Cur EXCEPT !.hist.publishes[c] = @ + 1]
       IN  Becomes(cleanupContinue(TdEffect(S1, c, r, "publish"), c, r,
                                   "publish"))

\* faulty variant: the subtraction without the CASE WHEN guard
DeductedUnguarded(balance, tokensUsed) == balance - tokensUsed

\* CASE WHEN tokenBalance >= n THEN tokenBalance - n ELSE 0 END
Deducted(balance, tokensUsed) ==
    IF balance >= tokensUsed THEN balance - tokensUsed ELSE 0

\* step 4: the balance update has been executed; step 5 follows
TdDeduct(c, r) ==
    /\ td[c][r].pc = "deduct"
    /\ LET L == td[c][r]
           S1 == [Cur EXCEPT
                     !.tokenBalance[L.userId] = Deducted(@, L.tokensUsed),
                     !.hist.deducts[c] = @ + 1]
       IN  Becomes(cleanupContinue(TdEffect(S1, c, r, "deduct"), c, r, "deduct"))

\* sessionRepo.update, redis.publish or the balance update has thrown
TdUpdateFails(c, r) ==
    /\ td[c][r].pc = "update"
    /\ Becomes(cleanupCatch(Cur, c, r, "update"))

TdPublishFails(c, r) ==
    /\ td[c][r].pc = "publish"
    /\ Becomes(cleanupCatch(Cur, c, r, "publish"))

TdDeductFails(c, r) ==
    /\ td[c][r].pc = "deduct"
    /\ Becomes(cleanupCatch(Cur, c, r, "deduct"))

\* step 6: removeActiveSession has been executed
TdRemove(c, r) ==
    /\ td[c][r].pc = "remove"
    /\ LET S1 == [Cur EXCEPT !.registry = Del(@, td[c][r].userId)]
       IN  Becomes(cleanupReturn(TdEffect(S1, c, r, "remove"), c, r))

----------------------------------------------------------------------------
(* Specifications.                                                         *)

\* a token that verifies, one that does not, and no token at all
Tokens == {"valid", "invalid", "none"}
TextEvents == {"textResponse", "userTranscript"}
ModeInputs == {"DEBATE", "KARAOKE"}

AdmissionStep(c) ==
    \/ \E token \in Tokens : Connect(c, token)
    \/ AdmGetActive(c)
    \/ AdmSetActive(c)
    \/ AdmProfile(c)
    \/ AdmSave(c)
    \/ AdmGreeting(c)

TeardownStep(c) ==
    \/ Disconnect(c)
    \/ EndSession(c)
    \/ TdScore(c)
    \/ \E r \in Reasons : TdUpdate(c, r)
    \/ \E r \in Reasons : TdPublish(c, r)
    \/ \E r \in Reasons : TdDeduct(c, r)
    \/ \E r \in Reasons : TdRemove(c, r)

AudioStep(c) ==
    \/ AudioChunk(c)
    \/ TrackResume(c)

ModeStep(c) ==
    \/ \E mode \in ModeInputs : SwitchMode(c, mode)
    \/ SwitchResume(c)

UpstreamStep ==
    \E sid \in DOMAIN sessions :
        \/ WsOpen(sid)
        \/ WsError(sid)
        \/ WsPeerClose(sid)
        \/ WsClosed(sid)
        \/ RetryTimer(sid)

TextStep ==
    \E sid \in DOMAIN sessions : \E ev \in TextEvents : ProviderText(sid, ev)

\* Gemini primary, both API keys configured, greeting on
DefaultConfig ==
    [primary |-> "gemini", apiKey |-> [p \in Providers |-> TRUE],
     greeting |-> TRUE, watchdog |-> WatchdogThreshold, grammar |-> TRUE]

\* either provider as primary, the API key of the alternate set or not
FailoverConfigs ==
    {cfg \in Configs : cfg.apiKey[cfg.primary] /\ ~cfg.greeting}

(* The life of one connection without provider failures: admission, audio, *)
(* transcripts, end_session and disconnect.                                *)
InitTeardown == InitWith({DefaultConfig})

NextTeardown ==
    \/ AdmissionStep("c1")
    \/ TeardownStep("c1")
    \/ AudioStep("c1")
    \/ TextStep
    \/ \E sid \in DOMAIN sessions : WsOpen(sid)

SpecTeardown == InitTeardown /\ [][NextTeardown]_vars

(* One connection whose provider connections fail: the retry machine of    *)
(* the adapters, the failover decision and teardown.                       *)
InitAdapter == InitWith(FailoverConfigs)

NextAdapter ==
    \/ \E token \in {"valid"} : Connect("c1", token)
    \/ AdmGetActive("c1")
    \/ AdmSetActive("c1")
    \/ AdmProfile("c1")
    \/ AdmSave("c1")
    \/ UpstreamStep
    \/ FailoverResume("c1")
    \/ Disconnect("c1")
    \/ EndSession("c1")
    \/ \E r \in Reasons : TdUpdate("c1", r)
    \/ \E r \in Reasons : TdRemove("c1", r)

SpecAdapter == InitAdapter /\ [][NextAdapter]_vars

\* getCachedUserProfile always answers (it catches its own errors), so a
\* failover suspended at its await is resumed
SpecAdapterLive == SpecAdapter /\ WF_vars(FailoverResume("c1"))

(* One connection that fails over to a healthy alternate while the client  *)
(* switches mode and streams audio.                                        *)
HealthyConfigs == {cfg \in FailoverConfigs : \A p \in Providers : cfg.apiKey[p]}

InitFailover == InitWith(HealthyConfigs)

NextFailover ==
    \/ \E token \in {"valid"} : Connect("c1", token)
    \/ AdmGetActive("c1")
    \/ AdmSetActive("c1")
    \/ AdmProfile("c1")
    \/ AdmSave("c1")
    \/ \E sid \in DOMAIN sessions : WsOpen(sid)
    \/ \E sid \in DOMAIN sessions : WsPeerClose(sid)
    \/ \E sid \in DOMAIN sessions : WsClosed(sid)
    \/ \E sid \in DOMAIN sessions : RetryTimer(sid)
    \/ FailoverResume("c1")
    \/ ModeStep("c1")
    \/ AudioStep("c1")
    \/ Disconnect("c1")
    \/ \E r \in {"disconnect"} : TdUpdate("c1", r)
    \/ \E r \in {"disconnect"} : TdRemove("c1", r)

SpecFailover == InitFailover /\ [][NextFailover]_vars

(* One connection whose teardown steps can fail.                           *)
QuietConfig ==
    [primary |-> "gemini", apiKey |-> [p \in Providers |-> TRUE],
     greeting |-> FALSE, watchdog |-> WatchdogThreshold, grammar |-> TRUE]

InitFaults == InitWith({QuietConfig})

TeardownFault(c) ==
    \/ \E r \in Reasons : TdUpdateFails(c, r)
    \/ \E r \in Reasons : TdPublishFails(c, r)
    \/ \E r \in Reasons : TdDeductFails(c, r)

NextFaults ==
    \/ \E token \in {"valid"} : Connect("c1", token)
    \/ AdmGetActive("c1")
    \/ AdmSetActive("c1")
    \/ AdmProfile("c1")
    \/ AdmSave("c1")
    \/ \E sid \in DOMAIN sessions : WsOpen(sid)
    \/ AudioStep("c1")
    \/ TextStep
    \/ TeardownStep("c1")
    \/ TeardownFault("c1")

SpecFaults == InitFaults /\ [][NextFaults]_vars

(* Two connections of one user that stream audio and are torn down: the   *)
(* balance of the user.                                                    *)
InitLedger == InitWith({QuietConfig})

NextLedger ==
    \E c \in Sockets :
        \/ \E token \in {"valid"} : Connect(c, token)
        \/ AdmGetActive(c)
        \/ AdmSetActive(c)
        \/ AdmProfile(c)
        \/ AdmSave(c)
        \/ AudioStep(c)
        \/ Disconnect(c)
        \/ \E r \in {"disconnect"} : TdUpdate(c, r)
        \/ \E r \in {"disconnect"} : TdDeduct(c, r)
        \/ \E r \in {"disconnect"} : TdRemove(c, r)

SpecLedger == InitLedger /\ [][NextLedger]_vars

(* Two connections admitted one after the other under every configuration *)
(* of primary provider and API keys, with connections that fail: provider  *)
(* selection.                                                              *)
SelectConfigs == {cfg \in Configs : ~cfg.greeting}

InitSelect == InitWith(SelectConfigs)

NextSelect ==
    \/ \E c \in Sockets :
          \/ \E token \in {"valid"} : Connect(c, token)
          \/ AdmGetActive(c)
          \/ AdmSetActive(c)
          \/ AdmProfile(c)
          \/ AdmSave(c)
          \/ FailoverResume(c)
          \/ \E r \in {"disconnect"} : TdUpdate(c, r)
          \/ \E r \in {"disconnect"} : TdRemove(c, r)
    \/ \E sid \in DOMAIN sessions : WsOpen(sid)
    \/ \E sid \in DOMAIN sessions : WsError(sid)
    \/ \E sid \in DOMAIN sessions : RetryTimer(sid)

SpecSelect == InitSelect /\ [][NextSelect]_vars

(* One connection that streams audio, through a failover and to its        *)
(* teardown: the jitter buffer and what is forwarded.                      *)
InitAudio == InitWith({QuietConfig})

NextAudio ==
    \/ \E token \in {"valid"} : Connect("c1", token)
    \/ AdmGetActive("c1")
    \/ AdmSetActive("c1")
    \/ AdmProfile("c1")
    \/ AdmSave("c1")
    \/ \E sid \in DOMAIN sessions : WsOpen(sid)
    \/ \E sid \in DOMAIN sessions : WsError(sid)
    \/ \E sid \in DOMAIN sessions : RetryTimer(sid)
    \/ FailoverResume("c1")
    \/ AudioChunkUpTo("c1", MaxStreamChunks)
    \/ TrackResume("c1")
    \/ Disconnect("c1")
    \/ \E r \in {"disconnect"} : TdUpdate("c1", r)
    \/ \E r \in {"disconnect"} : TdDeduct("c1", r)
    \/ \E r \in {"disconnect"} : TdRemove("c1", r)

SpecAudio == InitAudio /\ [][NextAudio]_vars

(* One connection that streams audio with a low watchdog threshold.        *)
StrictConfig == [QuietConfig EXCEPT !.watchdog = LowThreshold]

InitWatchdog == InitWith({StrictConfig})

NextWatchdog ==
    \/ \E token \in {"valid"} : Connect("c1", token)
    \/ AdmGetActive("c1")
    \/ AdmSetActive("c1")
    \/ AdmProfile("c1")
    \/ AdmSave("c1")
    \/ \E sid \in DOMAIN sessions : WsOpen(sid)
    \/ AudioChunkUpTo("c1", MaxWatchdogChunks)
    \/ TrackResume("c1")
    \/ TrackFails("c1")
    \/ MinuteBucketRolls(UserOf("c1"))
    \/ Disconnect("c1")
    \/ \E r \in {"disconnect"} : TdUpdate("c1", r)
    \/ \E r \in {"disconnect"} : TdDeduct("c1", r)
    \/ \E r \in {"disconnect"} : TdRemove("c1", r)

SpecWatchdog == InitWatchdog /\ [][NextWatchdog]_vars

(* One connection that talks and streams while its adapter reports errors, *)
(* loses its connection and is replaced.                                   *)
InitEvents == InitWith(HealthyConfigs)

NextEvents ==
    \/ \E token \in {"valid"} : Connect("c1", token)
    \/ AdmGetActive("c1")
    \/ AdmSetActive("c1")
    \/ AdmProfile("c1")
    \/ AdmSave("c1")
    \/ UpstreamStep
    \/ \E sid \in DOMAIN sessions : ProviderErrorUpTo(sid, MaxEventTexts)
    \/ \E sid \in DOMAIN sessions : \E ev \in TextEvents :
           ProviderTextUpTo(sid, ev, MaxEventTexts)
    \/ FailoverResume("c1")
    \/ AudioStep("c1")

SpecEvents == InitEvents /\ [][NextEvents]_vars

(* Calls of buildAdaptivePrompt with every profile and mode.               *)
InitPrompt ==
    /\ InitState({QuietConfig})
    /\ pf \in [profile : Profiles, mode : ValidModes, out : {NoPrompt}]

NextPrompt == BuildPrompt

SpecPrompt == InitPrompt /\ [][NextPrompt]_vars

(* One connection whose provider connections fail, by an error of the      *)
(* socket or by an exception of its constructor.                            *)
InitConnect == InitWith(FailoverConfigs)

NextConnect ==
    \/ \E token \in {"valid"} : Connect("c1", token)
    \/ AdmGetActive("c1")
    \/ AdmSetActive("c1")
    \/ AdmProfile("c1")
    \/ AdmSave("c1")
    \/ UpstreamStep
    \/ \E sid \in DOMAIN sessions : RetryTimerThrows(sid)
    \/ FailoverResume("c1")

SpecConnect == InitConnect /\ [][NextConnect]_vars

(* One connection whose provider connections always open and are closed    *)
(* by the peer, while the client streams audio.                             *)
InitReconnect == InitWith({QuietConfig})

NextReconnect ==
    \/ \E token \in {"valid"} : Connect("c1", token)
    \/ AdmGetActive("c1")
    \/ AdmSetActive("c1")
    \/ AdmProfile("c1")
    \/ AdmSave("c1")
    \/ \E sid \in DOMAIN sessions : WsOpen(sid)
    \/ \E sid \in DOMAIN sessions : WsPeerClose(sid)
    \/ \E sid \in DOMAIN sessions : RetryTimer(sid)
    \/ FailoverResume("c1")
    \/ AudioStep("c1")

SpecReconnect == InitReconnect /\ [][NextReconnect]_vars

(* One connection and every kind of message its provider can send.         *)
InitStream == InitWith(HealthyConfigs)

NextStream ==
    \/ \E token \in {"valid"} : Connect("c1", token)
    \/ AdmGetActive("c1")
    \/ AdmSetActive("c1")
    \/ AdmProfile("c1")
    \/ AdmSave("c1")
    \/ \E sid \in DOMAIN sessions : WsOpen(sid)
    \/ \E sid \in DOMAIN sessions : WsError(sid)
    \/ \E sid \in DOMAIN sessions : RetryTimer(sid)
    \/ \E sid \in DOMAIN sessions :
           \E msg \in GeminiMessages \cup OpenAIMessages :
               ProviderMessage(sid, msg, MaxEventTexts)
    \/ FailoverResume("c1")

SpecStream == InitStream /\ [][NextStream]_vars

(* Two connections of the same user whose admissions can fail.             *)
InitRollback == InitWith({QuietConfig})

NextRollback ==
    \E c \in Sockets :
        \/ \E token \in {"valid"} : Connect(c, token)
        \/ AdmGetActive(c)
        \/ AdmSetActive(c)
        \/ AdmSetActiveFails(c)
        \/ AdmProfile(c)
        \/ AdmProfileFails(c)
        \/ AdmSave(c)
        \/ AdmSaveFails(c)
        \/ Disconnect(c)
        \/ \E r \in {"disconnect"} : TdUpdate(c, r)
        \/ \E r \in {"disconnect"} : TdRemove(c, r)

SpecRollback == InitRollback /\ [][NextRollback]_vars

(* One connection whose sentences are checked for mistakes, up to its      *)
(* end by end_session or by a disconnect.                                  *)
TalkConfig == [QuietConfig EXCEPT !.primary = "openai"]
GrammarConfigs == {TalkConfig, [TalkConfig EXCEPT !.grammar = FALSE]}

InitGrammar == InitWith(GrammarConfigs)

GrammarStep(c) ==
    \E i \in 1..Len(gc[c]) :
        \/ GcPublished(c, i)
        \/ GcPublishFails(c, i)
        \/ GcTimer(c, i)
        \/ \E result \in {"none", "mistake", "clean", "malformed"} :
               GcRead(c, i, result)

NextGrammar ==
    \/ \E token \in {"valid"} : Connect("c1", token)
    \/ AdmGetActive("c1")
    \/ AdmSetActive("c1")
    \/ AdmProfile("c1")
    \/ AdmSave("c1")
    \/ \E sid \in DOMAIN sessions : WsOpen(sid)
    \/ \E sid \in DOMAIN sessions : \E ev \in TextEvents :
           ProviderTextUpTo(sid, ev, MaxGrammarTexts)
    \/ \E enabled \in BOOLEAN : CorrectionToggle("c1", enabled)
    \/ GrammarStep("c1")
    \/ EndSession("c1")
    \/ TdScore("c1")
    \/ Disconnect("c1")
    \/ \E r \in Reasons : TdUpdate("c1", r)
    \/ \E r \in Reasons : TdPublish("c1", r)
    \/ \E r \in Reasons : TdRemove("c1", r)

SpecGrammar == InitGrammar /\ [][NextGrammar]_vars

(* One connection whose provider fails and reports errors: the health of  *)
(* the providers.                                                          *)
InitHealth == InitWith(HealthyConfigs)

NextHealth ==
    \/ \E token \in {"valid"} : Connect("c1", token)
    \/ AdmGetActive("c1")
    \/ AdmSetActive("c1")
    \/ AdmProfile("c1")
    \/ AdmSave("c1")
    \/ UpstreamStep
    \/ \E sid \in DOMAIN sessions : ProviderError(sid)
    \/ FailoverResume("c1")

SpecHealth == InitHealth /\ [][NextHealth]_vars

(* Two connections of the same user: admission and teardown.               *)
InitLogin == InitWith({DefaultConfig})

NextLogin ==
    \E c \in Sockets :
        \/ AdmissionStep(c)
        \/ Disconnect(c)
        \/ \E r \in {"disconnect"} : TdUpdate(c, r)
        \/ \E r \in {"disconnect"} : TdRemove(c, r)

SpecLogin == InitLogin /\ [][NextLogin]_vars

----------------------------------------------------------------------------
(* Properties.                                                             *)

\* the connection has been announced to its client and is still connected
Active(c) == adm[c].pc \in {"greeting", "done"} /\ conn[c] = "open"

\* C1: for one connection, two teardowns whose invocations interleave
\* perform in total one balance deduction, one session-record update and at
\* most one session-ended publication.
C1_InterleavedTeardownOnce ==
    \A c \in Sockets :
        /\ hist.deducts[c] <= 1
        /\ hist.updates[c] <= 1
        /\ hist.publishes[c] <= 1

\* C2: of the connections of one user at most one is admitted at a time,
\* under every interleaving of the admissions.
C2_OneActiveSessionPerUser ==
    \A a, b \in Sockets :
        (a # b /\ UserOf(a) = UserOf(b)) => ~(Active(a) /\ Active(b))

\* C3: once a teardown has cleared the in-memory state of a connection, no
\* session state (session id, provider, mode, token counter, event-stream
\* handle) exists for that connection again.
C3_NoStateAfterTeardown ==
    \A c \in Sockets :
        hist.cleared[c] > 0 =>
            /\ ~Has(socketSessions, c)
            /\ ~Has(socketProviders, c)
            /\ ~Has(socketModes, c)
            /\ ~Has(sessionTokenCounts, c)
            /\ ~Has(socketEmitters, c)

Exhausted == <<"fallbackToText", "close">>

Alternate(p) == IF p = "gemini" THEN "openai" ELSE "gemini"

\* C4: every adapter session, of either provider, schedules at most
\* MaxRetries reconnections, the k-th after k * RetryBaseMs; the disconnect
\* after the last retry emits fallbackToText then close, once each, and
\* after them the session connects no more and emits nothing.
C4_RetryMachine ==
    \A sid \in DOMAIN sessions :
        LET s == sessions[sid] IN
        /\ Len(s.delays) <= MaxRetries
        /\ \A k \in 1..Len(s.delays) : s.delays[k] = k * RetryBaseMs
        /\ s.attempts <= 1 + Len(s.delays)
        /\ s.events \in {<<>>, Exhausted}
        /\ s.retryCount > MaxRetries => s.events = Exhausted
        /\ s.events = Exhausted =>
              /\ s.delays = <<RetryBaseMs, 2 * RetryBaseMs>>
              /\ s.attempts = MaxRetries + 1
              /\ s.ws = "CLOSED"
              /\ ~s.timer

C4_Witness ==
    \E sid \in DOMAIN sessions :
        /\ sessions[sid].events = Exhausted
        /\ sessions[sid].delays = <<RetryBaseMs, 2 * RetryBaseMs>>
        /\ sessions[sid].attempts = MaxRetries + 1

C5_ThirdFailure ==
    \A sid \in DOMAIN sessions :
        LET s == sessions[sid] IN
        /\ s.retryCount <= MaxRetries + 1
        /\ (s.isAlive /\ s.retryCount = MaxRetries) =>
              /\ s.events = <<>>
              /\ (s.timer \/ s.attempts = MaxRetries + 1)
        /\ s.events = Exhausted <=> s.retryCount = MaxRetries + 1
        /\ s.attempts <= MaxRetries + 1

\* fallbackToText of the session a socket listens to, with session state
\* present and the alternate healthy, starts a failover to the alternate
C5_FallbackStartsFailover ==
    \A sid \in DOMAIN sessions :
        LET c == sessions[sid].listener
            from == Get(socketProviders, c, NoProvider)
        IN  ( /\ sessions[sid].events = <<>>
              /\ sessions'[sid].events # <<>>
              /\ c # NoSocket
              /\ Has(socketSessions, c) /\ Has(socketUsers, c)
              /\ isHealthy(Cur, Alternate(from)) )
            => /\ fo'[c].pc = "profile"
               /\ fo'[c].currentProvider = from
               /\ fo'[c].newProvider = Alternate(from)
               /\ from = sessions[sid].provider

\* every provider_switched names the provider left and the other one
C5_SwitchedFromTo ==
    \A c \in Sockets :
        /\ hist.switched[c] = Len(hist.switchLog[c])
        /\ "provider_switched" \in sent[c] <=> hist.switched[c] > 0
        /\ \A i \in 1..Len(hist.switchLog[c]) :
              LET e == hist.switchLog[c][i] IN
              /\ e.to = Alternate(e.from)
              /\ Has(sessions, e.oldSessionId)
              /\ sessions[e.oldSessionId].provider = e.from
              /\ sessions[e.oldSessionId].events = Exhausted
              /\ i = 1 => e.from = config.primary

C7_Step ==
    \A c \in Sockets :
        ( /\ hist.fallbacks'[c] > hist.fallbacks[c]
          /\ ~isHealthy(Cur, Alternate(Get(socketProviders, c, NoProvider))) )
        => /\ "error:VOICE_FALLBACK" \in sent'[c]
           /\ "provider_switched" \notin (sent'[c] \ sent[c])
           /\ socketProviders' = socketProviders
           /\ socketSessions' = socketSessions
           /\ DOMAIN sessions' = DOMAIN sessions
           /\ activeSessions' = activeSessions
           /\ \A sid \in DOMAIN sessions :
                 sessions'[sid].attempts = sessions[sid].attempts
           /\ fo' = fo
           /\ conn' = conn
           /\ td' = td
           /\ hist.cleared' = hist.cleared

C7_UnhealthyAlternate == [][C7_Step]_vars

C7_Witness ==
    \E c \in Sockets :
        /\ "error:VOICE_FALLBACK" \in sent[c]
        /\ hist.fallbacks[c] = 1
        /\ conn[c] = "open"
        /\ \A r \in Reasons : td[c][r].pc = "idle"
        /\ Has(socketSessions, c) /\ Has(socketProviders, c)
        /\ Cardinality(DOMAIN sessions) = 1

\* C8: a session closed by closeSession while its reconnection delay is
\* pending opens no upstream connection when the delay elapses.
C8_RetryCancelledByClose ==
    \A sid \in DOMAIN sessions : sessions[sid].lateAttempts = 0

\* C9: after closeSession no upstream connection of the session is open or
\* becomes open, in whatever state the connection was when it was called
\* (connections made by a retry timer after the close set aside).
C9_CloseReleasesUpstream ==
    \A sid \in DOMAIN sessions :
        (~sessions[sid].isAlive /\ sessions[sid].lateAttempts = 0) =>
            sessions[sid].ws # "OPEN"

\* C10: a teardown invoked after a teardown of the same connection has
\* completed performs no side effect: no provider close, no session-record
\* update, no publication, no deduction, no registry removal.
C10_SecondTeardownNoEffects ==
    \A c \in Sockets : \A r \in Reasons :
        td[c][r].after >= 1 => td[c][r].fx = {}

TeardownSteps == {"update", "publish", "deduct"}

\* a teardown that has returned has cleared the maps, has removed the
\* registry entry of the user it read and, for end_session, has been
\* followed by session_ended
C11_TeardownCompleted ==
    \A c \in Sockets : \A r \in Reasons :
        td[c][r].pc = "done" =>
            /\ hist.cleared[c] >= 1
            /\ td[c][r].userId # NoUser => "remove" \in td[c][r].fx
            /\ r = "client_requested" => "session_ended" \in sent[c]

\* a step that fails hands over to a later step of the same teardown, and
\* the maps are cleared on the way to the registry removal
C11_FailureContinues ==
    \A c \in Sockets : \A r \in Reasons :
        ( /\ hist.failed'[c] # hist.failed[c]
          /\ td'[c][r] # td[c][r] )
        => /\ td[c][r].pc \in TeardownSteps
           /\ hist.failed'[c] = hist.failed[c] \cup {td[c][r].pc}
           /\ td'[c][r].pc \in {"publish", "deduct", "remove", "done"}
           /\ td'[c][r].pc \in TeardownSteps =>
                 StepRank(td'[c][r].pc) > StepRank(td[c][r].pc)
           /\ td'[c][r].pc \in {"remove", "done"} =>
                 hist.cleared'[c] = hist.cleared[c] + 1
           /\ td'[c][r].pc = "done" => td[c][r].userId = NoUser

\* C11: a failure of the record update, of the publication or of the
\* deduction does not abort a teardown: the teardown goes on with its later
\* steps, still clears the maps and removes the registry entry, and a
\* teardown requested by end_session is still followed by session_ended.
C11_StepFailureDoesNotAbort ==
    /\ [](C11_TeardownCompleted)
    /\ [][C11_FailureContinues]_vars

C11_Witness ==
    /\ hist.failed["c1"] = TeardownSteps
    /\ td["c1"]["client_requested"].pc = "done"
    /\ td["c1"]["client_requested"].fx = {"close", "remove"}
    /\ "session_ended" \in sent["c1"]
    /\ ~Has(registry, "u1")

Max0(n) == IF n > 0 THEN n ELSE 0

\* every change of a balance is the deduction step of one teardown, which
\* takes the balance to max(0, balance - tokensUsedThisSession) in one step
C12_DeductionStep ==
    /\ \A u \in Users :
          tokenBalance'[u] # tokenBalance[u] =>
              \E c \in Sockets : \E r \in Reasons :
                  /\ UserOf(c) = u
                  /\ td[c][r].pc = "deduct" /\ td'[c][r].pc # "deduct"
    /\ \A c \in Sockets : \A r \in Reasons :
          (td[c][r].pc = "deduct" /\ td'[c][r].pc # "deduct") =>
              /\ hist.deducts'[c] = hist.deducts[c] + 1
              /\ tokenBalance'[td[c][r].userId] =
                    Max0(tokenBalance[td[c][r].userId] - td[c][r].tokensUsed)

\* C12: the deduction of a teardown sets the balance of the user to
\* max(0, balance - tokensUsedThisSession) in a single update, and after any
\* sequence of teardowns, of one or of several sessions of the user, the
\* balance is not negative.
C12_BalanceClamped ==
    /\ [](\A u \in Users : tokenBalance[u] >= 0)
    /\ [][C12_DeductionStep]_vars

C12_Witness ==
    /\ hist.deducts["c1"] = 1
    /\ hist.deducts["c2"] = 1
    /\ tokenBalance["u1"] = 0
    /\ InitialBalance > 0

\* the admission that finds another, connected socket registered sends it
\* force_disconnect and disconnects it, and does not write the registry in
\* that step; the registry is written for a socket only by its admission
\* suspended at setActiveSession
C13_KickStep ==
    \A c \in Sockets :
        LET e == Get(registry, UserOf(c), NoSocket) IN
        /\ ( /\ adm[c].pc = "getActive" /\ adm'[c].pc # "getActive"
             /\ e \notin {NoSocket, c} /\ conn[e] = "open" )
           => /\ "force_disconnect" \in sent'[e]
              /\ conn'[e] = "closed"
              /\ td'[e]["disconnect"].pc # "idle"
              /\ registry' = registry
        /\ ( /\ Get(registry', UserOf(c), NoSocket) = c
             /\ registry' # registry )
           => adm[c].pc = "setActive"

\* C13: an admission that finds a different, still connected socket
\* registered for its user sends that socket force_disconnect and
\* disconnects it, and writes the registry entry with the new socket id only
\* after that.
C13_KickThenRegister ==
    /\ [](\A c \in Sockets :
             ( /\ adm[c].pc \notin {"idle", "getActive"}
               /\ adm[c].existing \notin {NoSocket, c} )
             => conn[adm[c].existing] = "closed")
    /\ [][C13_KickStep]_vars

C13_Witness ==
    /\ adm["c2"].pc = "profile"
    /\ adm["c2"].existing = "c1"
    /\ Get(registry, "u1", NoSocket) = "c2"
    /\ "force_disconnect" \in sent["c1"]
    /\ "session_started" \in sent["c1"]
    /\ conn["c1"] = "closed"

\* the step of an admission that selects the provider
Selects(c) == adm[c].pc = "profile" /\ adm'[c].pc = "save"

\* C14: when both providers are unhealthy, provider selection returns the
\* configured primary, whichever provider that is.
C14_Step ==
    \A c \in Sockets :
        ( /\ Selects(c)
          /\ ~isHealthy(Cur, config.primary)
          /\ ~isHealthy(Cur, Alternate(config.primary)) )
        => adm'[c].provider = config.primary

C14_BothUnhealthyPrimary == [][C14_Step]_vars

C15_Step ==
    \A c \in Sockets :
        /\ (Selects(c) /\ isHealthy(Cur, config.primary))
           => adm'[c].provider = config.primary
        /\ ( /\ Selects(c)
             /\ ~isHealthy(Cur, config.primary)
             /\ isHealthy(Cur, Alternate(config.primary)) )
           => adm'[c].provider = Alternate(config.primary)

\* C15: provider selection returns the configured primary whenever it is
\* healthy, also when the alternate is healthy, and the alternate whenever
\* the primary is unhealthy and the alternate healthy, for either primary.
C15_PrimaryPreferred == [][C15_Step]_vars

C15_Witness ==
    \E a, b \in Sockets :
        /\ a # b
        /\ adm[a].pc = "done" /\ adm[a].provider = config.primary
        /\ adm[b].pc = "save"
        /\ adm[b].provider = Alternate(config.primary)
        /\ config.apiKey[config.primary]
        /\ ~isHealthy(Cur, config.primary)

RECURSIVE Flatten(_)
Flatten(seqs) ==
    IF seqs = <<>> THEN <<>> ELSE Head(seqs) \o Flatten(Tail(seqs))

Payloads(entries) == [i \in 1..Len(entries) |-> entries[i].payload]

\* C16: after N audio chunks have been received on an admitted session
\* there have been N div JITTER_BUFFER_SIZE flushes and the jitter buffer
\* holds the last N mod JITTER_BUFFER_SIZE chunks; between two invocations
\* of the handler the buffer is shorter than JITTER_BUFFER_SIZE.
C16_FlushCount ==
    \A c \in Sockets :
        LET N == Len(hist.accepted[c]) IN
        /\ hist.flushes[c] = N \div JITTER_BUFFER_SIZE
        /\ Has(jitterBuffers, c) =>
              /\ Len(jitterBuffers[c]) < JITTER_BUFFER_SIZE
              /\ Len(jitterBuffers[c]) = N % JITTER_BUFFER_SIZE
              /\ jitterBuffers[c] =
                    SubSeq(hist.accepted[c],
                           N - (N % JITTER_BUFFER_SIZE) + 1, N)

C16_Witness ==
    /\ Len(hist.accepted["c1"]) = 2 * JITTER_BUFFER_SIZE + 1
    /\ hist.flushes["c1"] = 2
    /\ Has(jitterBuffers, "c1")
    /\ Len(jitterBuffers["c1"]) = 1

\* C17: every flush hands the adapter of the socket's session one payload,
\* the JITTER_BUFFER_SIZE chunks buffered since the flush before in the
\* order they arrived (3 * ChunkBytes bytes), and every adapter session is
\* sent its payloads in the order of the flushes: no chunk twice, none out
\* of order.
C17_FlushPayload ==
    \A c \in Sockets :
        LET fw == hist.forwarded[c] IN
        /\ Len(fw) = hist.flushes[c]
        /\ Flatten(Payloads(fw)) =
              SubSeq(hist.accepted[c], 1, JITTER_BUFFER_SIZE * Len(fw))
        /\ \A i \in 1..Len(fw) :
              /\ Len(fw[i].payload) = JITTER_BUFFER_SIZE
              /\ fw[i].bytes = JITTER_BUFFER_SIZE * ChunkBytes
              /\ Has(sessions, fw[i].sessionId)
              /\ sessions[fw[i].sessionId].provider = fw[i].provider
        /\ \A sid \in DOMAIN sessions :
              IF \E i \in 1..Len(fw) : fw[i].sessionId = sid
              THEN sessions[sid].audioLog =
                      Payloads(SelectSeq(fw,
                          LAMBDA e : e.sessionId = sid /\ e.delivered))
              ELSE \/ sessions[sid].audioLog = <<>>
                   \/ \E d \in Sockets \ {c} :
                         \E i \in 1..Len(hist.forwarded[d]) :
                             hist.forwarded[d][i].sessionId = sid

C17_Witness ==
    \E sid \in DOMAIN sessions :
        /\ sessions[sid].audioLog = <<<<1, 2, 3>>, <<4, 5, 6>>>>
        /\ Len(hist.forwarded["c1"]) = 2
        /\ hist.forwarded["c1"][1].bytes = 12288
        /\ hist.forwarded["c1"][1].payload = <<1, 2, 3>>

\* C18: for each provider consecutiveFailures is 0 after a connection of
\* one of its sessions has opened and counts every failed connection and
\* every upstream error since, an error the provider reports over an open
\* connection included; isHealthy is true exactly when the API key is set
\* and consecutiveFailures is below the ceiling of the provider.
C18_HealthCounters ==
    \A p \in Providers :
        /\ consecutiveFailures[p] = hist.errorsSinceOpen[p]
        /\ isHealthy(Cur, p) <=>
              (config.apiKey[p] /\ consecutiveFailures[p] < FailureCeiling(p))

\* the parts of the state a mode switch has no business with: the provider
\* connections, the provider and session of every socket, the failovers
ProviderState ==
    <<socketProviders, socketSessions, socketEmitters, activeSessions,
      DOMAIN sessions, [sid \in DOMAIN sessions |-> sessions[sid].ws],
      consecutiveFailures, fo, hist.switched, hist.failovers>>

C19_Requested(c) ==
    Len(hist.modeRequests'[c]) = Len(hist.modeRequests[c]) + 1

C19_SwitchStep ==
    \A c \in Sockets :
        /\ C19_Requested(c) =>
              LET mode == hist.modeRequests'[c][Len(hist.modeRequests'[c])]
              IN  /\ ProviderState' = ProviderState
                  /\ \A d \in Sockets :
                         "provider_switched" \in sent'[d]
                             => "provider_switched" \in sent[d]
                  /\ IF mode \in ValidModes
                     THEN \/ socketModes' = socketModes
                          \/ /\ Has(socketSessions, c)
                             /\ socketModes' = Put(socketModes, c, mode)
                     ELSE /\ "error" \in sent'[c]
                          /\ socketModes' = socketModes
                          /\ sessions' = sessions
                          /\ sw' = sw
        /\ Len(sw'[c]) < Len(sw[c]) =>
              /\ ProviderState' = ProviderState
              /\ socketModes' = socketModes
              /\ \A d \in Sockets :
                     "provider_switched" \in sent'[d]
                         => "provider_switched" \in sent[d]

\* C19: a valid switch_mode changes the mode of the session and nothing of
\* its provider side: no connection is opened, provider and sessionId stay
\* and no provider_switched is sent; a switch_mode naming a mode outside
\* the six is answered with an error and changes nothing; the mode of a
\* session is always one of the six.
C19_ModeSwitchOnly ==
    /\ [](\A c \in DOMAIN socketModes : socketModes[c] \in ValidModes)
    /\ [][C19_SwitchStep]_vars

C19_Witness ==
    /\ hist.modeRequests["c1"] = <<"DEBATE">>
    /\ Get(socketModes, "c1", NoMode) = "DEBATE"
    /\ "mode_switched" \in sent["c1"]
    /\ Has(socketSessions, "c1")

\* what the audio path and the life of a session consist of
AudioPath ==
    <<jitterBuffers, socketSessions, socketProviders, socketUsers,
      socketEmitters, sessions, activeSessions, conn, td, hist.cleared,
      hist.flushes, hist.forwarded, hist.accepted>>

\* a step of trackTokenUsage after its await
C20_TrackStep ==
    \A c \in Sockets :
        Len(track'[c]) < Len(track[c]) =>
            LET u == UserOf(c) IN
            /\ (tokenUsage'[u] # tokenUsage[u]
                   /\ tokenUsage'[u] > config.watchdog)
                   => /\ hist.rateLimited'[c] = hist.rateLimited[c] + 1
                      /\ "error:RATE_LIMITED" \in sent'[c]
            /\ AudioPath' = AudioPath

\* a third chunk arrives after the notice
C20_FlushStep ==
    \A c \in Sockets :
        (hist.rateLimited[c] > 0
            /\ Len(hist.accepted'[c]) = Len(hist.accepted[c]) + 1
            /\ Len(jitterBuffers[c]) = JITTER_BUFFER_SIZE - 1)
            => LET fw == hist.forwarded'[c]
                   last == fw[Len(fw)]
                   sid == socketSessions[c]
               IN  /\ Len(fw) = Len(hist.forwarded[c]) + 1
                   /\ last.sessionId = sid
                   /\ last.provider = socketProviders[c]
                   /\ UpstreamOpen(Cur, last.provider, sid)
                          => sessions'[sid].audioLog =
                                 Append(sessions[sid].audioLog, last.payload)

C21_Step ==
    \A c \in Sockets :
        hist.completed[c] > 0 =>
            /\ hist.gcReads'[c] = hist.gcReads[c]
            /\ "grammar_correction" \in sent'[c]
                   => "grammar_correction" \in sent[c]

\* C21: once the teardown of a session has completed, a correction check
\* that was still polling makes no further read of the result key and no
\* grammar_correction is emitted to the connection.
C21_PollingCancelled == [][C21_Step]_vars

\* C22: a correction check makes up to 5 reads of the result key, the n-th
\* after the n-th of the waits 100, 200, 400, 800, 1600 ms; a read that
\* finds a result ends the check, and a check gives up only after 5 reads
\* that found nothing.
C22_FivePolls ==
    \A c \in Sockets : \A i \in 1..Len(gc[c]) :
        LET k == gc[c][i] IN
        /\ k.reads <= Len(pollIntervals)
        /\ k.waits = SubSeq(pollIntervals, 1, Len(k.waits))
        /\ k.pc = "read" => Len(k.waits) = k.reads + 1
        /\ k.pc = "done" /\ k.reads > 0 => Len(k.waits) = k.reads
        /\ k.pc = "gaveUp" => k.reads = Len(pollIntervals)

\* the per-socket maps of the gateway hold nothing for the socket
NoMemoryOf(c) ==
    /\ ~Has(socketUsers, c) /\ ~Has(socketSessions, c)
    /\ ~Has(socketProviders, c) /\ ~Has(socketModes, c)
    /\ ~Has(socketEmitters, c) /\ ~Has(sessionTranscripts, c)
    /\ ~Has(userTranscripts, c) /\ ~Has(correctionEnabled, c)
    /\ ~Has(dbSessionIds, c) /\ ~Has(sessionTokenCounts, c)
    /\ ~Has(jitterBuffers, c)

TeardownSettled(c) == \A r \in Reasons : td[c][r].pc \in {"idle", "done"}

\* C23: when admission has failed after the registry was written (the
\* profile could not be loaded, the session record not saved) and the
\* teardown this starts has run, the client has been sent an error and is
\* disconnected, the registry has no entry for the socket and no map holds
\* anything for it.
C23_FailedAdmissionRolledBack ==
    \A c \in Sockets :
        (adm[c].pc = "failed" /\ TeardownSettled(c)) =>
            /\ "error" \in sent[c]
            /\ conn[c] = "closed"
            /\ Get(registry, UserOf(c), NoSocket) # c
            /\ NoMemoryOf(c)

\* the connection was refused at authentication
Rejected(c) == conn[c] = "closed" /\ adm[c].pc = "idle"

\* the state that sessions consist of, and what the other sockets see
SessionState ==
    <<socketUsers, socketSessions, socketProviders, socketModes,
      socketEmitters, sessionTranscripts, userTranscripts, correctionEnabled,
      dbSessionIds, sessionTokenCounts, jitterBuffers, sessions,
      activeSessions, registry, dbRecords, tokenBalance, adm, gc>>

C24_RejectStep ==
    \A c \in Sockets :
        (conn[c] = "new" /\ Rejected(c)') =>
            /\ "error" \in sent'[c]
            /\ SessionState' = SessionState
            /\ TeardownSettled(c)'
            /\ \A r \in Reasons : td'[c][r].fx = {}
            /\ \A d \in Sockets \ {c} :
                   conn'[d] = conn[d] /\ sent'[d] = sent[d] /\ td'[d] = td[d]

\* C24: a connection with no token or an invalid token is sent an error and
\* disconnected in one step that reads and writes no registry entry and
\* creates no session record, provider session or map entry, and that
\* leaves every other connection and its registration as they were; a
\* rejected connection never has any session state.
C24_RejectedWithoutSession ==
    /\ [](\A c \in Sockets :
             Rejected(c) =>
                 /\ NoMemoryOf(c)
                 /\ ~Has(dbRecords, c)
                 /\ TeardownSettled(c)
                 /\ \A sid \in DOMAIN sessions : sessions[sid].listener # c)
    /\ [][C24_RejectStep]_vars

C24_Witness ==
    /\ Rejected("c2")
    /\ "error" \in sent["c2"]
    /\ Active("c1")
    /\ Get(registry, UserOf("c1"), NoSocket) = "c1"

\* a step of an adapter session: an event of its socket, its retry timer or
\* a message of the provider, with the events the adapter emits for it
AdapterStep(sid) ==
    \/ WsOpen(sid) \/ WsError(sid) \/ WsPeerClose(sid) \/ WsClosed(sid)
    \/ RetryTimer(sid)
    \/ ProviderErrorUpTo(sid, MaxEventTexts)
    \/ \E ev \in TextEvents : ProviderTextUpTo(sid, ev, MaxEventTexts)

\* no client is disconnected and no teardown starts or advances
C25_NoTeardown ==
    /\ conn' = conn /\ td' = td /\ registry' = registry
    /\ dbRecords' = dbRecords /\ tokenBalance' = tokenBalance
    /\ hist.cleared' = hist.cleared /\ hist.completed' = hist.completed

\* what an 'error' event does when emitted on the stream of a session
C25_ErrorEvent(sid) ==
    LET S == EmitterEmit(Cur, sid, "error")
        c == sessions[sid].listener
    IN  /\ S.conn = conn /\ S.td = td
        /\ S.socketProviders = socketProviders
        /\ S.socketSessions = socketSessions
        /\ S.socketModes = socketModes
        /\ S.sessionTranscripts = sessionTranscripts
        /\ S.jitterBuffers = jitterBuffers
        /\ S.sessionTokenCounts = sessionTokenCounts
        /\ c # NoSocket => "error:AI_ERROR" \in S.sent[c]

Listening(c) == {sid \in DOMAIN sessions : sessions[sid].listener = c}

C26_SwitchStep ==
    \A c \in Sockets :
        hist.switched'[c] > hist.switched[c] =>
            /\ Listening(c) = {}
            /\ Listening(c)' = {socketSessions'[c]}

\* C26: at every moment at most one adapter event stream has the listeners
\* of a connection attached; a failover has detached the listeners of the
\* old stream when it attaches them to the new one, so that after
\* provider_switched only the new session delivers events to the client.
C26_OneSubscription ==
    /\ [](\A c \in Sockets : Cardinality(Listening(c)) <= 1)
    /\ [][C26_SwitchStep]_vars

C26_Witness ==
    /\ "provider_switched" \in sent["c1"]
    /\ Has(socketSessions, "c1")
    /\ Listening("c1") = {socketSessions["c1"]}
    /\ \E sid \in DOMAIN sessions :
           /\ sid # socketSessions["c1"]
           /\ sessions[sid].listener = NoSocket
           /\ sessions[sid].events # <<>>

\* the events of the adapter interface
StreamEvents ==
    {"audioResponse", "textResponse", "userTranscript", "turnComplete",
     "error", "fallbackToText", "close"}

\* C27: every event an adapter emits on the stream of a session is one of
\* audioResponse, textResponse, userTranscript, turnComplete, error,
\* fallbackToText and close, for Gemini as for OpenAI.
C27_EventsOfTheInterface ==
    \A p \in Providers : hist.emitted[p] \subseteq StreamEvents

\* the band of a confidence score: the number alone
Band(profile) ==
    LET confidence == confidenceOf(profile) IN
    IF Lt(confidence, LowConfidence) THEN "vietnamese"
    ELSE IF Gt(confidence, HighConfidence) THEN "english"
    ELSE "balanced"

C29_UpdateStep ==
    /\ td["c1"]["client_requested"].pc = "update"
    /\ td'["c1"]["client_requested"].pc # "update"
    /\ hist'.updates["c1"] = hist.updates["c1"] + 1

C29_EndedStep ==
    /\ "session_ended" \notin sent["c1"]
    /\ "session_ended" \in sent'["c1"]

\* what the maps hold for the session at this moment
C29_Final ==
    [endTime |-> TRUE,
     totalTokensConsumed |-> Get(sessionTokenCounts, "c1", 0),
     transcript |-> Get(sessionTranscripts, "c1", <<>>)]

\* C29: when end_session ends an admitted session, the update of its record
\* sets endTime and stores the token counter and the transcript the session
\* has at that moment, and session_ended is emitted only after the record
\* has been updated.
C29_EndSessionPersists ==
    [][LET L == td["c1"]["client_requested"] IN
       /\ C29_UpdateStep => dbRecords'[L.dbSessionId] = C29_Final
       /\ C29_EndedStep /\ L.dbSessionId # NoDb =>
              /\ Has(dbRecords, L.dbSessionId)
              /\ dbRecords[L.dbSessionId].endTime
              /\ dbRecords[L.dbSessionId].totalTokensConsumed = L.tokensUsed
              /\ dbRecords[L.dbSessionId].transcript = L.transcript
      ]_vars

\* the tag of the entry a text event adds to the transcript
C30_Tag(ev) == IF ev = "textResponse" THEN "AI" ELSE "User"

\* a text event of the session `sid` is delivered to the listeners of c1
C30_Delivered(sid, ev) ==
    /\ sessions[sid].listener = "c1"
    /\ ProviderTextUpTo(sid, ev, MaxEventTexts)

\* C30: until teardown the transcript of a connection only grows: the
\* delivery of a textResponse appends one AI entry and that of a
\* userTranscript one User entry at its end, and no other step changes the
\* entries it has, a failover included; only step 5 of teardown removes it.
C30_TranscriptAppendOnly ==
    [][LET before == Get(sessionTranscripts, "c1", <<>>)
           after == Get(sessionTranscripts', "c1", <<>>)
       IN  /\ \A sid \in DOMAIN sessions : \A ev \in TextEvents :
                  C30_Delivered(sid, ev) => after = Append(before, C30_Tag(ev))
           /\ Has(sessionTranscripts, "c1") /\ Has(sessionTranscripts', "c1") =>
                  \/ after = before
                  \/ \E sid \in DOMAIN sessions : \E ev \in TextEvents :
                         /\ C30_Delivered(sid, ev)
                         /\ after = Append(before, C30_Tag(ev))
           /\ Has(sessionTranscripts, "c1") /\ ~Has(sessionTranscripts', "c1") =>
                  hist'.cleared["c1"] = hist.cleared["c1"] + 1
      ]_vars

C30_Witness ==
    /\ hist.switched["c1"] = 1
    /\ Get(sessionTranscripts, "c1", <<>>) = <<"AI", "User">>
    /\ Get(socketProviders, "c1", NoProvider) = "openai"

\* C31: a teardown removes the registry entry of its user only if the entry
\* still names the connection being torn down, and a connection that is
\* admitted and has not begun its teardown is the one the registry names.
C31_RemovesOwnEntryOnly ==
    /\ [][\A c \in Sockets : \A r \in Reasons :
             TdRemove(c, r) /\ Has(registry, td[c][r].userId) =>
                 registry[td[c][r].userId] = c]_vars
    /\ [](\A c \in Sockets :
             Active(c) /\ adm[c].pc = "done"
                 /\ (\A r \in Reasons : td[c][r].pc = "idle")
                 /\ (\A d \in Sockets \ {c} : adm[d].pc \in {"idle", "done"})
                 /\ (\A d \in Sockets \ {c} : TeardownSettled(d)) =>
             Get(registry, UserOf(c), NoSocket) = c)

\* nothing of the connection is suspended at an await
C32_Quiet(c) ==
    /\ adm[c].pc \in {"idle", "done", "failed", "refused"}
    /\ fo[c].pc = "idle"
    /\ TeardownSettled(c)

\* C32: once the teardown of the connection has completed and its suspended
\* admission or failover has resumed, neither adapter has a session of the
\* connection in its map, with an upstream connection or with a retry
\* pending.
C32_NoSessionAfterTeardown ==
    (hist.completed["c1"] > 0 /\ C32_Quiet("c1")) =>
        /\ \A p \in Providers : activeSessions[p] = {}
        /\ \A sid \in DOMAIN sessions :
               /\ sessions[sid].ws \notin {"CONNECTING", "OPEN"}
               /\ ~sessions[sid].timer

\* C33: when mode_switched is sent for a mode, the upstream connection of
\* the connection's current adapter session has been sent the prompt built
\* for that mode.
C33_AcknowledgedPromptSent ==
    [][(sw["c1"] # <<>> /\ sw'["c1"] = Tail(sw["c1"])) =>
           LET mode == Head(sw["c1"]).mode
               sid == Get(socketSessions', "c1", NoSession)
           IN  /\ sid \in DOMAIN sessions'
               /\ buildAdaptivePrompt(mode) \in sessions'[sid].received
      ]_vars

\* C34: when the greeting step of the admission of a connection that is
\* still connected ends, the upstream connection of its session has been
\* sent the greeting prompt.
C34_GreetingReachesUpstream ==
    [][(adm["c1"].pc = "greeting" /\ adm'["c1"].pc = "done"
            /\ conn["c1"] = "open"
            /\ adm["c1"].sessionId \in activeSessions[adm["c1"].provider]) =>
           <<"greeting", "FREE_TALK">>
               \in sessions'[adm["c1"].sessionId].received
      ]_vars

\* C35: a session that has not been closed and whose last connection
\* attempt has failed either has a retry pending or has emitted
\* fallbackToText: it is never left with nothing to wait for.
C35_FailureEndsInFallback ==
    \A sid \in DOMAIN sessions :
        (sessions[sid].isAlive /\ sessions[sid].ws = "CLOSED"
             /\ ~sessions[sid].timer) =>
            \E i \in 1..Len(sessions[sid].events) :
                sessions[sid].events[i] = "fallbackToText"

RECURSIVE SumSeq(_)
SumSeq(seq) == IF seq = <<>> THEN 0 ELSE Head(seq) + SumSeq(Tail(seq))

\* the estimated cost of every flush of the connection, sent upstream or not
C36_Cost(c) ==
    SumSeq([i \in 1..Len(hist.forwarded[c]) |->
               EstimatedTokens(hist.forwarded[c][i].bytes)])

C37_Closes(sid) ==
    /\ sessions[sid].isAlive
    /\ sessions[sid].ws \in {"CONNECTING", "OPEN"}
    /\ sessions'[sid].ws = "CLOSED"

\* C37: the retry counter of an adapter session is never reset: a
\* connection that opens leaves it as it is, every close of the upstream
\* connection of a live session adds one, the close that makes it exceed
\* MaxRetries emits fallbackToText, and the session makes at most
\* MaxRetries + 1 connection attempts in its life.
C37_RetryCounterNeverReset ==
    /\ [](\A sid \in DOMAIN sessions :
             /\ sessions[sid].attempts <= MaxRetries + 1
             /\ sessions[sid].retryCount <= MaxRetries + 1)
    /\ [][\A sid \in DOMAIN sessions :
             /\ sessions'[sid].retryCount >= sessions[sid].retryCount
             /\ (sessions[sid].ws = "CONNECTING" /\ sessions'[sid].ws = "OPEN")
                    => sessions'[sid].retryCount = sessions[sid].retryCount
             /\ C37_Closes(sid) =>
                    /\ sessions'[sid].retryCount = sessions[sid].retryCount + 1
                    /\ (sessions'[sid].retryCount > MaxRetries
                            <=> sessions'[sid].events = Exhausted)]_vars

\* the third close of a session ends in fallback
C37_Witness ==
    \E sid \in DOMAIN sessions :
        /\ sessions[sid].retryCount = MaxRetries + 1
        /\ sessions[sid].attempts = MaxRetries + 1
        /\ sessions[sid].events = Exhausted
        /\ \A p \in Providers : consecutiveFailures[p] = 0

\* provider p is unhealthy while the other provider is healthy
C38_OnlyOtherHealthy(p) == ~isHealthy(Cur, p) /\ isHealthy(Cur, Alternate(p))

\* C38: while a provider is unhealthy and the other one healthy, no step
\* creates an adapter session on it, and its consecutiveFailures return to
\* 0 only when a connection of a session that already existed opens.
C38_NoSessionOnUnhealthy ==
    [][\A p \in Providers :
          C38_OnlyOtherHealthy(p) =>
              /\ \A sid \in DOMAIN sessions' \ DOMAIN sessions :
                     sessions'[sid].provider # p
              /\ consecutiveFailures'[p] = 0 /\ consecutiveFailures[p] > 0 =>
                     \E sid \in DOMAIN sessions :
                         /\ sessions[sid].provider = p
                         /\ sessions[sid].ws = "CONNECTING"
                         /\ sessions'[sid].ws = "OPEN"
      ]_vars

\* the audio every adapter session has been sent
C39_Upstream == [sid \in DOMAIN sessions |-> sessions[sid].audioLog]

\* an audio chunk of the connection arrives
C39_ChunkArrives == used'.chunks["c1"] = used.chunks["c1"] + 1

\* C39: audio is forwarded, and its cost put up for accounting, only in the
\* step in which a chunk arrives; a buffered chunk leaves the jitter buffer
\* only in such a step or when teardown clears the maps, and the chunks
\* teardown finds in the buffer are dropped: not forwarded and not accounted.
C39_FlushOnArrivalOnly ==
    [][/\ ~C39_ChunkArrives =>
              /\ hist'.forwarded["c1"] = hist.forwarded["c1"]
              /\ \A sid \in DOMAIN sessions :
                     sessions'[sid].audioLog = sessions[sid].audioLog
              /\ Len(track'["c1"]) <= Len(track["c1"])
              /\ (Has(jitterBuffers, "c1") /\ Has(jitterBuffers', "c1")) =>
                     jitterBuffers'["c1"] = jitterBuffers["c1"]
       /\ (Has(jitterBuffers, "c1") /\ ~Has(jitterBuffers', "c1")) =>
              /\ hist'.cleared["c1"] = hist.cleared["c1"] + 1
              /\ hist'.forwarded["c1"] = hist.forwarded["c1"]
              /\ track'["c1"] = track["c1"]
              /\ tokenUsage' = tokenUsage
              /\ \A sid \in DOMAIN sessions :
                     sessions'[sid].audioLog = sessions[sid].audioLog
      ]_vars

\* five chunks, one flush, the last two dropped by a completed teardown
C39_Witness ==
    /\ Len(hist.accepted["c1"]) = 2 * JITTER_BUFFER_SIZE - 1
    /\ hist.flushes["c1"] = 1
    /\ Len(hist.forwarded["c1"]) = 1
    /\ hist.cleared["c1"] = 1
    /\ hist.completed["c1"] = 1
    /\ ~Has(jitterBuffers, "c1")
    /\ track["c1"] = <<>>
    /\ tokenUsage[UserOf("c1")] = C36_Cost("c1")

=============================================================================
